---------------------------- MODULE Spec2Model ----------------------------
(***************************************************************************)
(* A model of the CO2 projection engine of the Agri API                    *)
(* (src/utils/calculations.js) and of the routes that call it              *)
(* (POST /calculate and POST /sales).  The specifications share the       *)
(* state: Spec follows one calculation request step by step; SocialSpec    *)
(* serves the calculation, enhanced and SDG report handlers one request at *)
(* a time; AuthSpec is the server's authentication and administration,     *)
(* from the rate limiter to the handler; StoreSpec is the routes that save *)
(* and return the calculations of a user; ApproveSpec is the approval of a *)
(* token request, await by await, with two approvals under way; StartSpec  *)
(* is the server started and stopped; DeploySpec is the deployment script, *)
(* callback by callback, and DeployFairSpec the same with every callback   *)
(* that is due being run.                                                  *)
(*                                                                         *)
(* NUMBERS.  A JavaScript number is an IEEE-754 double: a finite value of  *)
(* limited precision, NaN, +Infinity or -Infinity; a missing property is   *)
(* undefined and a missing result is null.  A value is modelled here as a  *)
(* record [k, v]:                                                          *)
(*    k = "fin"    the finite number v / Scale (fixed point: every product,*)
(*                 quotient and exponential is rounded to the nearest      *)
(*                 multiple of 1/Scale, so a small enough result rounds to *)
(*                 0 as a double underflows to 0, and two close results    *)
(*                 round to the same value as two doubles do);             *)
(*    k = "inf"    +Infinity (v = 1) or -Infinity (v = -1);                *)
(*    k = "nan"    NaN;   k = "undef"  undefined;   k = "null"  null.      *)
(* The quantum 1/Scale is far coarser than a double's, so rounding and      *)
(* underflow appear at smaller magnitudes than in the running program      *)
(* (Math.exp(-x) is 0 for x > 745.13 in doubles, for x > 7.6 here).  The   *)
(* requests are chosen so that a result underflows here where it does in   *)
(* doubles: the exponent stays below 7.6 or goes beyond 745.13, and the    *)
(* smallest positive input is MinValue, as Number.MIN_VALUE is.            *)
(***************************************************************************)
EXTENDS Integers, Sequences, FiniteSets, TLC

Scale == 1000

Fin(v) == [k |-> "fin", v |-> v]
NaN == [k |-> "nan", v |-> 0]
PosInf == [k |-> "inf", v |-> 1]
NegInf == [k |-> "inf", v |-> -1]
Undefined == [k |-> "undef", v |-> 0]
Null == [k |-> "null", v |-> 0]
\* a function or an object where a number is expected: truthy, and NaN in
\* arithmetic (what obj["constructor"] or obj["toString"] is for an object literal)
Inherited == [k |-> "object", v |-> 0]

\* n whole units, m thousandths: Dec(3, 330) is 3.33
Dec(n, m) == Fin(n * Scale + m)
Zero == Fin(0)
One == Fin(Scale)
\* the smallest positive number, Number.MIN_VALUE of the doubles: its square is 0
MinValue == Fin(1)

IsFin(a) == a.k = "fin"
\* a value arithmetic can use as it is; undefined converts to NaN
IsNum(a) == a.k \in {"fin", "inf"}
Abs(n) == IF n < 0 THEN -n ELSE n
Sign(n) == IF n > 0 THEN 1 ELSE IF n < 0 THEN -1 ELSE 0
Inf(s) == IF s > 0 THEN PosInf ELSE NegInf

\* n / d rounded to the nearest integer (n >= 0, d > 0)
Round(n, d) == IF 2 * (n % d) >= d THEN (n \div d) + 1 ELSE n \div d

\* x * y / Scale rounded, x, y >= 0, without leaving 32 bits: the larger factor
\* is split into its whole and fractional parts
MulAbs(x, y) ==
  LET hi == IF x >= y THEN x ELSE y
      lo == IF x >= y THEN y ELSE x
  IN  (hi \div Scale) * lo + Round((hi % Scale) * lo, Scale)

\* x * Scale / y rounded, x >= 0, y > 0, without leaving 32 bits: long division,
\* the remainder's quotient taken on shortened operands when it is large
DivAbs(x, y) ==
  LET ip == x \div y
      rem == x % y
  IN  ip * Scale + (IF rem < 2000000 THEN Round(rem * Scale, y)
                    ELSE Round((rem \div 1000) * Scale, y \div 1000))

\* a + b
Add(a, b) ==
  IF ~IsNum(a) \/ ~IsNum(b) THEN NaN
  ELSE IF a.k = "inf" /\ b.k = "inf" THEN (IF a.v = b.v THEN a ELSE NaN)
  ELSE IF a.k = "inf" THEN a
  ELSE IF b.k = "inf" THEN b
  ELSE Fin(a.v + b.v)

Neg(a) == IF IsNum(a) THEN [k |-> a.k, v |-> -a.v] ELSE NaN

\* a - b
Sub(a, b) == Add(a, Neg(b))

\* a * b
Mul(a, b) ==
  IF ~IsNum(a) \/ ~IsNum(b) THEN NaN
  ELSE IF a.k = "inf" \/ b.k = "inf"
       THEN (IF Sign(a.v) * Sign(b.v) = 0 THEN NaN ELSE Inf(Sign(a.v) * Sign(b.v)))
  ELSE Fin(Sign(a.v) * Sign(b.v) * MulAbs(Abs(a.v), Abs(b.v)))

\* a / b
Div(a, b) ==
  IF ~IsNum(a) \/ ~IsNum(b) THEN NaN
  ELSE IF a.k = "inf" /\ b.k = "inf" THEN NaN
  ELSE IF a.k = "inf" THEN Inf(a.v * (IF b.v >= 0 THEN 1 ELSE -1))
  ELSE IF b.k = "inf" THEN Zero
  ELSE IF b.v = 0 THEN (IF a.v = 0 THEN NaN ELSE Inf(a.v))
  ELSE Fin(Sign(a.v) * Sign(b.v) * DivAbs(Abs(a.v), Abs(b.v)))

\* the order of the numbers, infinities at the ends
Key(a) == IF a.k = "inf" THEN a.v * 2000000000 ELSE a.v

\* a < b, a <= b, a > b, a >= b: false as soon as one side is NaN or undefined
Lt(a, b) == IsNum(a) /\ IsNum(b) /\ Key(a) < Key(b)
Leq(a, b) == IsNum(a) /\ IsNum(b) /\ Key(a) <= Key(b)
Gt(a, b) == Lt(b, a)
Geq(a, b) == Leq(b, a)

\* Math.max(a, b): NaN as soon as one argument is NaN (or undefined)
MathMax(a, b) ==
  IF ~IsNum(a) \/ ~IsNum(b) THEN NaN ELSE IF Key(a) >= Key(b) THEN a ELSE b

\* Math.min(a, b)
MathMin(a, b) ==
  IF ~IsNum(a) \/ ~IsNum(b) THEN NaN ELSE IF Key(a) <= Key(b) THEN a ELSE b

\* Math.abs(a)
MathAbs(a) == IF ~IsNum(a) THEN NaN ELSE [k |-> a.k, v |-> Abs(a.v)]

\* Math.floor(a)
MathFloor(a) ==
  IF ~IsNum(a) THEN NaN ELSE IF a.k = "inf" THEN a ELSE Fin((a.v \div Scale) * Scale)

\* the truth value of a number or of null: 0, NaN, null and undefined are falsy
Truthy(a) == a.k \in {"inf", "object"} \/ (a.k = "fin" /\ a.v # 0)

\* 1000000 * e^(-n) for the whole numbers n whose exponential is not below half
\* a quantum
ExpWhole == <<1000000, 367879, 135335, 49787, 18316, 6738, 2479, 912>>

\* the alternating series term - term*f/(1000(j+1)) + ... of 1000000 * e^(-f/1000)
RECURSIVE ExpSeries(_, _, _)
ExpSeries(f, j, term) ==
  IF term = 0 THEN 0
  ELSE term - ExpSeries(f, j + 1, (term * f) \div (1000 * (j + 1)))

\* Scale * e^(-m/Scale) rounded, m >= 0: 0 once the result is below half a quantum
ExpNeg(m) ==
  LET n == m \div 1000
      frac == Round(ExpSeries(m % 1000, 0, 1000000), 1000)
  IN  IF n >= Len(ExpWhole) THEN 0 ELSE Round(ExpWhole[n + 1] * frac, 1000000)

\* Math.exp(a)
MathExp(a) ==
  IF ~IsNum(a) THEN NaN
  ELSE IF a.k = "inf" THEN (IF a.v > 0 THEN PosInf ELSE Zero)
  ELSE IF a.v <= 0 THEN Fin(ExpNeg(-a.v))
  ELSE Div(One, Fin(ExpNeg(a.v)))


(***************************************************************************)
(* OBJECTS.  A JavaScript object is modelled as the sequence of its        *)
(* properties in insertion order, which is the order of for-in and of      *)
(* Object.values.                                                          *)
(***************************************************************************)
Pair(key, val) == [key |-> key, val |-> val]

\* the names every object inherits from Object.prototype (those the requests use)
ObjectPrototypeNames == { "constructor", "toString" }

\* obj[key]: the own property, else the one inherited from Object.prototype, else
\* undefined
Get(obj, key) ==
  IF \E j \in 1..Len(obj) : obj[j].key = key
  THEN obj[CHOOSE j \in 1..Len(obj) : obj[j].key = key].val
  ELSE IF key \in ObjectPrototypeNames THEN Inherited
  ELSE Undefined

\* Object.values(obj).reduce((sum, val) => sum + val, 0)
RECURSIVE SumValues(_, _)
SumValues(obj, j) ==
  IF j = 0 THEN Zero ELSE Add(SumValues(obj, j - 1), obj[j].val)

\* arr[idx] for a JavaScript index idx (0-based), undefined outside the array
At(arr, idx) ==
  IF IsFin(idx) /\ idx.v % Scale = 0 /\ idx.v >= 0 /\ idx.v \div Scale < Len(arr)
  THEN arr[(idx.v \div Scale) + 1]
  ELSE Undefined

(***************************************************************************)
(* performCalculations, lines 10-84: parameters, defaults, validation and  *)
(* the two curves' first values.                                           *)
(***************************************************************************)
DefaultRoofDivision ==
  << Pair("Green Areas", Dec(25, 0)), Pair("Solar Power", Dec(25, 0)),
     Pair("Water Management", Dec(25, 0)), Pair("Social Impact", Dec(25, 0)) >>

DefaultFullSavings ==
  << Pair("Green Areas", Dec(1347, 980)), Pair("Solar Power", Dec(12142, 500)),
     Pair("Water Management", Dec(1441, 250)), Pair("Social Impact", Dec(4180, 0)) >>

DefaultImprovementYears ==
  << Pair("Green Areas", Dec(0, 0)), Pair("Solar Power", Dec(1, 0)),
     Pair("Water Management", Dec(2, 0)), Pair("Social Impact", Dec(3, 0)) >>

\* the destructuring of params with its defaults: a property takes its default
\* when the caller did not give it
Destructure(p) ==
  [ roof_area |-> IF "roof_area" \in p.given THEN p.roof_area ELSE Dec(2776, 0),
    GWP_roof |-> IF "GWP_roof" \in p.given THEN p.GWP_roof ELSE Dec(3, 330),
    decline_rate |-> IF "decline_rate" \in p.given THEN p.decline_rate ELSE Dec(0, 30),
    roof_division |->
      IF "roof_division" \in p.given THEN p.roof_division ELSE DefaultRoofDivision,
    full_savings |->
      IF "full_savings" \in p.given THEN p.full_savings ELSE DefaultFullSavings,
    improvement_years |->
      IF "improvement_years" \in p.given THEN p.improvement_years
      ELSE DefaultImprovementYears,
    years_to_calculate |->
      IF "years_to_calculate" \in p.given THEN p.years_to_calculate ELSE Dec(50, 0),
    points |-> IF "points" \in p.given THEN p.points ELSE Dec(1000, 0),
    efficiency_degradation |->
      IF "efficiency_degradation" \in p.given THEN p.efficiency_degradation
      ELSE Dec(0, 5),
    climate_zone |->
      IF "climate_zone" \in p.given THEN p.climate_zone ELSE "temperate" ]

climateFactors ==
  << Pair("temperate", Dec(1, 0)), Pair("tropical", Dec(1, 200)),
     Pair("arid", Dec(0, 900)), Pair("continental", Dec(1, 100)),
     Pair("polar", Dec(0, 800)) >>

\* climateFactors[climate_zone] || 1.0
climate_factor(c) ==
  IF Truthy(Get(climateFactors, c.climate_zone))
  THEN Get(climateFactors, c.climate_zone)
  ELSE Dec(1, 0)

totalPercentage(c) == SumValues(c.roof_division, Len(c.roof_division))

\* a faulty variant of ValidationError: the test of the roof division's sum is left out
ValidationErrorNoSum(c) ==
  IF Leq(c.roof_area, Zero) THEN "Roof area must be positive"
  ELSE IF Leq(c.GWP_roof, Zero) THEN "GWP_roof must be positive"
  ELSE IF Lt(c.decline_rate, Zero) \/ Geq(c.decline_rate, One)
       THEN "Decline rate must be between 0 and 1"
  ELSE IF Leq(c.years_to_calculate, Zero) THEN "Years to calculate must be positive"
  ELSE IF Leq(c.points, Zero) THEN "Points must be positive"
  ELSE ""

\* the input validation: the message of the error thrown, "" when none is
ValidationError(c) ==
  IF Leq(c.roof_area, Zero) THEN "Roof area must be positive"
  ELSE IF Leq(c.GWP_roof, Zero) THEN "GWP_roof must be positive"
  ELSE IF Lt(c.decline_rate, Zero) \/ Geq(c.decline_rate, One)
       THEN "Decline rate must be between 0 and 1"
  ELSE IF Leq(c.years_to_calculate, Zero) THEN "Years to calculate must be positive"
  ELSE IF Leq(c.points, Zero) THEN "Points must be positive"
  ELSE IF Gt(MathAbs(Sub(totalPercentage(c), Dec(100, 0))), Dec(0, 10))
       THEN "Roof division percentages must sum to 100%"
  ELSE ""

initial_co2(c) == Mul(c.GWP_roof, c.roof_area)

\* annual_savings[key] = full_savings[key] * (roof_division[key] / 100), for each
\* key of roof_division
annual_savings(c) ==
  [ j \in 1..Len(c.roof_division) |->
      Pair(c.roof_division[j].key,
           Mul(Get(c.full_savings, c.roof_division[j].key),
               Div(c.roof_division[j].val, Dec(100, 0)))) ]

\* linspace(start, end, n), n a whole number of points
linspace(start, end, n) ==
  LET step == Div(Sub(end, start), Sub(n, One))
  IN  [ j \in 1..(n.v \div Scale) |-> Add(start, Mul(step, Fin((j - 1) * Scale))) ]

\* a faulty variant of NaturalDecline: a linear decline initial_co2 * (1 - rate * year * factor)
NaturalDeclineLinear(c, years) ==
  [ j \in 1..Len(years) |->
      Mul(initial_co2(c),
          Sub(One, Mul(Mul(c.decline_rate, years[j]), climate_factor(c)))) ]

\* years_smooth.map(year => initial_co2 * Math.exp(-decline_rate * year * climate_factor))
NaturalDecline(c, years) ==
  [ j \in 1..Len(years) |->
      Mul(initial_co2(c),
          MathExp(Mul(Mul(Neg(c.decline_rate), years[j]), climate_factor(c)))) ]

\* new Array(n).fill(0) with its first entry set to initial_co2
InitialImproved(c, n) ==
  [ j \in 1..n |-> IF j = 1 THEN initial_co2(c) ELSE Zero ]

(***************************************************************************)
(* performCalculations, lines 86-108: one iteration of the loop that fills *)
(* co2_with_improvements.                                                  *)
(***************************************************************************)
\* a faulty variant of efficiency: the floor at 0 is left out
efficiencyNoFloor(c, years_active) ==
  Sub(One, Mul(c.efficiency_degradation, years_active))

\* Math.max(0, 1 - (efficiency_degradation * years_active))
efficiency(c, years_active) ==
  MathMax(Zero, Sub(One, Mul(c.efficiency_degradation, years_active)))

\* (annual_savings[improvement] * efficiency) / points * climate_factor
StepSaving(c, improvement, years_active) ==
  Mul(Div(Mul(Get(annual_savings(c), improvement), efficiency(c, years_active)),
          c.points),
      climate_factor(c))

\* the body of the for-in loop for the j-th property of improvement_years: an
\* improvement whose start year is reached subtracts its saving from co2
ApplyImprovement(c, co2, year, j) ==
  LET improvement == c.improvement_years[j].key
      start_year == c.improvement_years[j].val
  IN  IF Geq(year, start_year)
      THEN Sub(co2, StepSaving(c, improvement, Sub(year, start_year)))
      ELSE co2

\* the for-in loop over improvement_years, from its j-th property on
RECURSIVE ApplyImprovements(_, _, _, _)
ApplyImprovements(c, co2, year, j) ==
  IF j > Len(c.improvement_years) THEN co2
  ELSE ApplyImprovements(c, ApplyImprovement(c, co2, year, j), year, j + 1)

\* a faulty variant of ClampAtZero: the floor is left out
NoClamp(co2) == co2

\* Ensure CO2 doesn't go below zero: Math.max(0, co2)
ClampAtZero(co2) == MathMax(Zero, co2)

\* a faulty variant of DeclineStep: the sign of the exponent is left out
DeclineStepGrowth(c, co2) == Mul(co2, MathExp(Mul(c.decline_rate, climate_factor(c))))

\* the natural decline component: co2 * Math.exp(-decline_rate * climate_factor)
DeclineStep(c, co2) == Mul(co2, MathExp(Mul(Neg(c.decline_rate), climate_factor(c))))

\* the value the loop body gives sample j (1-based) from sample j - 1
ImprovedSample(c, years, improved, j) ==
  ClampAtZero(ApplyImprovements(c, DeclineStep(c, improved[j - 1]), years[j], 1))

(***************************************************************************)
(* performCalculations, lines 110-193: neutrality, savings, economics and  *)
(* the result.                                                             *)
(***************************************************************************)
\* the first index (0-based) whose sample is <= 0, -1 when there is none
NeutralIndex(curve) ==
  IF \E j \in 1..Len(curve) : Leq(curve[j], Zero)
  THEN (CHOOSE j \in 1..Len(curve) :
          /\ Leq(curve[j], Zero)
          /\ \A h \in 1..(j - 1) : ~Leq(curve[h], Zero)) - 1
  ELSE -1

\* neutral_index > 0 ? years_smooth[neutral_index] : null
NeutralityYear(curve, years) ==
  IF NeutralIndex(curve) > 0 THEN years[NeutralIndex(curve) + 1] ELSE Null

\* Math.floor(points / years_to_calculate * 10)
ten_year_index(c) == MathFloor(Mul(Div(c.points, c.years_to_calculate), Dec(10, 0)))

cost_factors ==
  << Pair("Green Areas", Dec(120, 0)), Pair("Solar Power", Dec(350, 0)),
     Pair("Water Management", Dec(80, 0)), Pair("Social Impact", Dec(150, 0)) >>

\* calculateEstimatedCost(roof_area, roof_division): the sum, over the first j
\* properties of roof_division, of area * (share / 100) * (cost_factors[key] || 100)
RECURSIVE calculateEstimatedCost(_, _, _)
calculateEstimatedCost(roof_area, roof_division, j) ==
  IF j = 0 THEN Zero
  ELSE LET improvement == roof_division[j].key
           area_for_improvement ==
             Mul(roof_area, Div(roof_division[j].val, Dec(100, 0)))
           factor == IF Truthy(Get(cost_factors, improvement))
                     THEN Get(cost_factors, improvement) ELSE Dec(100, 0)
       IN  Add(calculateEstimatedCost(roof_area, roof_division, j - 1),
               Mul(area_for_improvement, factor))

\* x.toFixed(1) read back as a number: one decimal
ToFixed1(a) == IF IsFin(a) THEN Fin(Sign(a.v) * Round(Abs(a.v), 100) * 100) ELSE a

NoResults == [k |-> "none"]

\* the object performCalculations returns
Results(c, years, improved, natural) ==
  LET with_improvements == NeutralityYear(improved, years)
      natural_decline == NeutralityYear(natural, years)
      co2_savings_10yr ==
        Sub(At(natural, ten_year_index(c)), At(improved, ten_year_index(c)))
      total_annual_savings == SumValues(annual_savings(c), Len(annual_savings(c)))
      estimated_cost ==
        calculateEstimatedCost(c.roof_area, c.roof_division, Len(c.roof_division))
      simple_payback_years == Div(estimated_cost, total_annual_savings)
      roi_10yr == Mul(Div(co2_savings_10yr, estimated_cost), Dec(100, 0))
  IN  [ k |-> "results",
        configuration |->
          [ initial_co2 |-> initial_co2(c), annual_savings |-> annual_savings(c),
            climate_factor |-> climate_factor(c) ],
        timeline |->
          [ years |-> years, co2_with_improvements |-> improved,
            co2_natural_decline |-> natural ],
        neutrality |->
          [ with_improvements |-> with_improvements,
            natural_decline |-> natural_decline ],
        savings |-> [ annual |-> total_annual_savings, ten_year |-> co2_savings_10yr ],
        economics |->
          [ estimated_cost |-> estimated_cost,
            simple_payback_years |-> simple_payback_years, roi_10yr |-> roi_10yr ],
        intensity |->
          [ carbon_per_sqm |-> Div(initial_co2(c), c.roof_area),
            reduction_per_euro |-> Div(co2_savings_10yr, estimated_cost) ],
        summary |->
          [ neutrality_improved |->
              IF Truthy(with_improvements) THEN ToFixed1(with_improvements) ELSE Null,
            neutrality_natural |->
              IF Truthy(natural_decline) THEN ToFixed1(natural_decline) ELSE Null,
            economic_summary |->
              << ToFixed1(simple_payback_years), ToFixed1(roi_10yr) >> ] ]

(***************************************************************************)
(* performEnhancedCalculations, lines 201-380, and its helpers.            *)
(***************************************************************************)
DefaultSocialMetrics ==
  << Pair("social_network", Dec(11, 80)), Pair("trust", Dec(11, 80)),
     Pair("reciprocity", Dec(11, 80)), Pair("safety_wellbeing", Dec(9, 860)),
     Pair("social_equity", Dec(9, 830)), Pair("happiness", Dec(22, 600)),
     Pair("stress_reduction", Dec(39, 400)), Pair("quality_of_life", Dec(35, 300)) >>

DefaultHealthMetrics ==
  << Pair("hypertension_reduction", Dec(6, 770)), Pair("heat_wave_temperature", Dec(28, 0)),
     Pair("mortality_reduction", Dec(15, 0)) >>

DefaultSdgFocus ==
  << "Zero Hunger", "Good Health and Well-being", "Clean Water and Sanitation",
     "Affordable and Clean Energy", "Decent Work and Economic Growth",
     "Climate Action", "Life on Land", "Partnerships for the Goals" >>

\* the destructuring of the enhanced parameters with its defaults
DestructureEnhanced(p) ==
  [ roof_area |-> IF "roof_area" \in p.given THEN p.roof_area ELSE Dec(2776, 0),
    GWP_roof |-> IF "GWP_roof" \in p.given THEN p.GWP_roof ELSE Dec(3, 330),
    roof_division |->
      IF "roof_division" \in p.given THEN p.roof_division ELSE DefaultRoofDivision,
    plant_absorption |->
      IF "plant_absorption" \in p.given THEN p.plant_absorption ELSE Dec(1347, 976),
    energy_emission |-> Dec(64095, 680),
    solar_emission |-> Dec(1747, 130),
    solar_reduction |->
      IF "solar_reduction" \in p.given THEN p.solar_reduction ELSE Dec(12142, 500),
    heating_original |-> Dec(16720, 0),
    heating_reduced |-> Dec(12540, 0),
    water_emission |-> Dec(6849, 810),
    water_mitigated |-> Dec(1441, 254),
    water_collected |-> Dec(427, 0),
    social_metrics |->
      IF "social_metrics" \in p.given THEN p.social_metrics ELSE DefaultSocialMetrics,
    health_metrics |->
      IF "health_metrics" \in p.given THEN p.health_metrics ELSE DefaultHealthMetrics,
    sdg_focus |-> IF "sdg_focus" \in p.given THEN p.sdg_focus ELSE DefaultSdgFocus,
    years_to_calculate |->
      IF "years_to_calculate" \in p.given THEN p.years_to_calculate ELSE Dec(50, 0) ]

\* the input validation of performEnhancedCalculations
EnhancedValidationError(c) ==
  IF Leq(c.roof_area, Zero) THEN "Roof area must be positive"
  ELSE IF Leq(c.GWP_roof, Zero) THEN "GWP_roof must be positive"
  ELSE IF Gt(MathAbs(Sub(totalPercentage(c), Dec(100, 0))), Dec(0, 10))
       THEN "Roof division percentages must sum to 100%"
  ELSE ""

\* plant_absorption + solar_reduction + (heating_original - heating_reduced)
\*   + water_mitigated
total_annual_co2_reduction(c) ==
  Add(Add(Add(c.plant_absorption, c.solar_reduction),
          Sub(c.heating_original, c.heating_reduced)),
      c.water_mitigated)

social_weights ==
  << Pair("social_network", Dec(0, 100)), Pair("trust", Dec(0, 100)),
     Pair("reciprocity", Dec(0, 100)), Pair("safety_wellbeing", Dec(0, 150)),
     Pair("social_equity", Dec(0, 150)), Pair("happiness", Dec(0, 150)),
     Pair("stress_reduction", Dec(0, 150)), Pair("quality_of_life", Dec(0, 100)) >>

\* social_weights[metric] || 0.1
SocialWeight(metric) ==
  IF Truthy(Get(social_weights, metric)) THEN Get(social_weights, metric)
  ELSE Dec(0, 100)

\* the loop over Object.entries(social_metrics), its first j entries: the sums
\* of value * weight and of weight
RECURSIVE SocialSums(_, _)
SocialSums(metrics, j) ==
  IF j = 0 THEN [score |-> Zero, weight |-> Zero]
  ELSE LET before == SocialSums(metrics, j - 1)
           weight == SocialWeight(metrics[j].key)
       IN  [ score |-> Add(before.score, Mul(metrics[j].val, weight)),
             weight |-> Add(before.weight, weight) ]

\* social_impact_score / total_weight
social_impact_score(c) ==
  LET sums == SocialSums(c.social_metrics, Len(c.social_metrics))
  IN  Div(sums.score, sums.weight)

\* (hypertension_reduction + mortality_reduction) / 2
health_impact_score(c) ==
  Div(Add(Get(c.health_metrics, "hypertension_reduction"),
          Get(c.health_metrics, "mortality_reduction")),
      Dec(2, 0))

\* sdg_focus.length
Length(list) == Fin(Len(list) * Scale)

\* a faulty variant of sdg_alignment_score: the cap at 100 is left out
sdg_alignment_score_uncapped(c) ==
  Mul(Div(Length(c.sdg_focus), Dec(17, 0)), Dec(100, 0))

\* Math.min(100, (sdg_focus.length / 17) * 100)
sdg_alignment_score(c) ==
  MathMin(Dec(100, 0), Mul(Div(Length(c.sdg_focus), Dec(17, 0)), Dec(100, 0)))

\* the combined score: 40% environment, 30% social, 20% health, 10% SDG
sustainability_score(c) ==
  Add(Add(Add(Mul(Div(total_annual_co2_reduction(c),
                      Mul(Mul(c.GWP_roof, c.roof_area), Dec(0, 100))),
                  Dec(0, 400)),
              Mul(social_impact_score(c), Dec(0, 300))),
          Mul(health_impact_score(c), Dec(0, 200))),
      Mul(sdg_alignment_score(c), Dec(0, 100)))

enhanced_cost_factors ==
  << Pair("Green Areas", Dec(120, 0)), Pair("Solar Power", Dec(350, 0)),
     Pair("Water Management", Dec(80, 0)), Pair("Social Impact", Dec(150, 0)) >>

\* calculateEnhancedEstimatedCost(roof_area, roof_division), over the first j
\* properties of roof_division
RECURSIVE calculateEnhancedEstimatedCost(_, _, _)
calculateEnhancedEstimatedCost(roof_area, roof_division, j) ==
  IF j = 0 THEN Zero
  ELSE LET improvement == roof_division[j].key
           area_for_improvement ==
             Mul(roof_area, Div(roof_division[j].val, Dec(100, 0)))
           cost_for_improvement ==
             Mul(area_for_improvement,
                 IF Truthy(Get(enhanced_cost_factors, improvement))
                 THEN Get(enhanced_cost_factors, improvement) ELSE Dec(100, 0))
       IN  Add(calculateEnhancedEstimatedCost(roof_area, roof_division, j - 1),
               cost_for_improvement)

\* calculateAnnualEconomicBenefit: carbon, electricity, water, productivity and
\* health benefits, for 50 employees
calculateAnnualEconomicBenefit(solar_reduction, heating_reduction, water_collected, social_score, health_score) ==
  LET electricity_savings == Mul(solar_reduction, Dec(0, 500))
      carbon_benefit == Mul(Add(solar_reduction, heating_reduction), Dec(0, 50))
      electricity_benefit == Mul(electricity_savings, Dec(0, 250))
      water_benefit == Mul(water_collected, Dec(2, 500))
      productivity_benefit ==
        Div(Mul(Mul(social_score, Dec(50, 0)), Dec(50, 0)), Dec(100, 0))
      health_benefit ==
        Div(Mul(Mul(health_score, Dec(100, 0)), Dec(50, 0)), Dec(100, 0))
  IN  Add(Add(Add(Add(carbon_benefit, electricity_benefit), water_benefit),
              productivity_benefit),
          health_benefit)

\* getSustainabilityRating(score): the scale of seven tiers
getSustainabilityRating(score) ==
  IF Geq(score, Dec(90, 0)) THEN "Outstanding"
  ELSE IF Geq(score, Dec(80, 0)) THEN "Excellent"
  ELSE IF Geq(score, Dec(70, 0)) THEN "Very Good"
  ELSE IF Geq(score, Dec(60, 0)) THEN "Good"
  ELSE IF Geq(score, Dec(50, 0)) THEN "Satisfactory"
  ELSE IF Geq(score, Dec(40, 0)) THEN "Acceptable"
  ELSE "Needs Improvement"

\* Array.from({length: years_to_calculate + 1}, (_, i) => i)
ProjectionYears(c) ==
  LET length == Add(c.years_to_calculate, One)
  IN  IF IsFin(length) /\ length.v >= Scale
      THEN [ j \in 1..(length.v \div Scale) |-> Fin((j - 1) * Scale) ]
      ELSE <<>>

\* the object performEnhancedCalculations returns
EnhancedResults(c) ==
  LET estimated_cost ==
        calculateEnhancedEstimatedCost(c.roof_area, c.roof_division,
                                       Len(c.roof_division))
      annual_economic_benefit ==
        calculateAnnualEconomicBenefit(
          c.solar_reduction, Sub(c.heating_original, c.heating_reduced),
          c.water_collected, social_impact_score(c), health_impact_score(c))
      years == ProjectionYears(c)
  IN  [ k |-> "enhanced",
        configuration |->
          [ roof_area |-> c.roof_area, GWP_roof |-> c.GWP_roof,
            initial_co2 |-> Mul(c.GWP_roof, c.roof_area),
            roof_division |-> c.roof_division ],
        environmental_impact |->
          [ years_to_neutrality |->
              Div(Mul(c.GWP_roof, c.roof_area), c.plant_absorption),
            solar_energy_savings_percentage |->
              Mul(Div(c.solar_reduction, c.energy_emission), Dec(100, 0)),
            heating_reduction_percentage |->
              Mul(Div(Sub(c.heating_original, c.heating_reduced), c.heating_original),
                  Dec(100, 0)),
            water_reduction_percentage |->
              Mul(Div(c.water_mitigated, c.water_emission), Dec(100, 0)),
            total_annual_co2_reduction |-> total_annual_co2_reduction(c) ],
        social_impact |->
          [ metrics |-> c.social_metrics,
            social_impact_score |-> social_impact_score(c) ],
        health_impact |->
          [ metrics |-> c.health_metrics,
            health_impact_score |-> health_impact_score(c),
            heat_wave_resilience |->
              IF Gt(Get(c.health_metrics, "heat_wave_temperature"), Dec(25, 0))
              THEN "Improved" ELSE "Standard" ],
        sdg_alignment |->
          [ sdgs_addressed |-> c.sdg_focus,
            sdg_alignment_score |-> sdg_alignment_score(c) ],
        sustainability |->
          [ sustainability_score |-> sustainability_score(c),
            rating |-> getSustainabilityRating(sustainability_score(c)) ],
        economics |->
          [ estimated_cost |-> estimated_cost,
            annual_economic_benefit |-> annual_economic_benefit,
            simple_payback_years |-> Div(estimated_cost, annual_economic_benefit),
            roi_10yr |->
              Mul(Div(Mul(annual_economic_benefit, Dec(10, 0)), estimated_cost),
                  Dec(100, 0)) ],
        projections |->
          [ years |-> years,
            cumulative_co2_reduction |->
              [ j \in 1..Len(years) |-> Mul(total_annual_co2_reduction(c), years[j]) ],
            cumulative_economic_benefit |->
              [ j \in 1..Len(years) |-> Mul(annual_economic_benefit, years[j]) ] ],
        summary |->
          [ sustainability |->
              << ToFixed1(sustainability_score(c)),
                 getSustainabilityRating(sustainability_score(c)) >> ] ]

(***************************************************************************)
(* THE REQUESTS.  The bodies a client sends to POST /calculate and POST    *)
(* /sales: a record of the properties, and the set of those it gives.      *)
(***************************************************************************)
MaxPoints == 4
MaxSaved == 1

AllFields ==
  { "roof_area", "GWP_roof", "decline_rate", "roof_division", "full_savings",
    "improvement_years", "years_to_calculate", "points", "efficiency_degradation",
    "climate_zone" }

\* a body that gives no property: every parameter takes its default
EmptyBody ==
  [ given |-> {}, roof_area |-> Zero, GWP_roof |-> Zero, decline_rate |-> Zero,
    roof_division |-> <<>>, full_savings |-> <<>>, improvement_years |-> <<>>,
    years_to_calculate |-> Zero, points |-> Zero, efficiency_degradation |-> Zero,
    climate_zone |-> "" ]

\* the body of src/tests/api.test.js, 'should perform calculation with valid
\* parameters': category names of the caller's own
TestBody ==
  [ EmptyBody EXCEPT
      !.given = {"roof_area", "GWP_roof", "roof_division"},
      !.roof_area = Dec(2000, 0), !.GWP_roof = Dec(3, 0),
      !.roof_division =
        << Pair("Plants", Dec(25, 0)), Pair("Solar Panels", Dec(25, 0)),
           Pair("Water Management", Dec(25, 0)), Pair("Energy Savings", Dec(25, 0)) >> ]

YearsSet == { 1, 10, 11, 30 }

\* roof area, GWP, decline rate, whether the climate zone is given ("tropical")
\* and the horizons: an ordinary roof without decline, with a slow and with a
\* fast one (over 1 year, and over 1000 years, where Math.exp underflows), and a
\* roof so small that the product of area and GWP underflows to 0
PhysSet ==
  { <<Dec(2, 0), Dec(3, 0), Zero, FALSE, YearsSet>>,
    <<Dec(2, 0), Dec(3, 0), Dec(0, 30), TRUE, YearsSet>>,
    <<Dec(2, 0), Dec(3, 0), Dec(0, 900), FALSE, {1, 1000}>>,
    <<MinValue, MinValue, Dec(0, 30), FALSE, YearsSet>> }
DivisionSet ==
  { << Pair("Green Areas", Dec(50, 0)), Pair("Solar Power", Dec(50, 0)) >>,
    << Pair("Green Areas", Dec(60, 0)), Pair("Solar Power", Dec(40, 5)) >>,
    << Pair("Plants", Dec(50, 0)), Pair("Solar Panels", Dec(50, 0)) >> }
SavingsSet ==
  { << Pair("Green Areas", Zero), Pair("Solar Power", Zero) >>,
    << Pair("Green Areas", Dec(2, 0)), Pair("Solar Power", Dec(4, 0)) >>,
    << Pair("Green Areas", Dec(40, 0)), Pair("Solar Power", Dec(0, 500)) >>,
    << Pair("Green Areas", Dec(-3, 0)), Pair("Solar Power", Dec(1, 0)) >> }
CustomImprovementYears ==
  << Pair("Green Areas", Dec(0, 0)), Pair("Solar Power", Dec(2, 0)) >>
DegradationSet == { Zero, Dec(0, 500) }

\* the bodies performCalculations accepts
ValidBodies ==
  UNION {
    { [ given |-> (AllFields \ (IF ph[4] THEN {} ELSE {"climate_zone"}))
                    \ (IF ig THEN {} ELSE {"improvement_years"}),
        roof_area |-> ph[1], GWP_roof |-> ph[2], decline_rate |-> ph[3],
        roof_division |-> dv, full_savings |-> fs,
        improvement_years |-> IF ig THEN CustomImprovementYears ELSE <<>>,
        years_to_calculate |-> Dec(y, 0), points |-> Dec(n, 0),
        efficiency_degradation |-> e,
        climate_zone |-> IF ph[4] THEN "tropical" ELSE "" ] :
        dv \in DivisionSet, fs \in SavingsSet, ig \in BOOLEAN,
        y \in ph[5], n \in 1..MaxPoints, e \in DegradationSet } :
    ph \in PhysSet }

BaseBody ==
  [ given |-> AllFields, roof_area |-> Dec(2, 0), GWP_roof |-> Dec(3, 0),
    decline_rate |-> Dec(0, 30),
    roof_division |->
      << Pair("Green Areas", Dec(50, 0)), Pair("Solar Power", Dec(50, 0)) >>,
    full_savings |-> << Pair("Green Areas", Dec(2, 0)), Pair("Solar Power", Dec(4, 0)) >>,
    improvement_years |-> CustomImprovementYears,
    years_to_calculate |-> Dec(30, 0), points |-> Dec(3, 0),
    efficiency_degradation |-> Dec(0, 5), climate_zone |-> "polar" ]

\* bodies at and beyond the limits of the validation, one parameter at a time
EdgeBodies ==
  { [BaseBody EXCEPT !.roof_area = a] : a \in {Zero, Dec(-1, 0)} }
  \cup { [BaseBody EXCEPT !.GWP_roof = g] : g \in {Zero, Dec(-3, 0)} }
  \cup { [BaseBody EXCEPT !.decline_rate = d, !.years_to_calculate = One] :
           d \in {Fin(-1), Dec(0, 999), One, Dec(2, 0)} }
  \cup { [BaseBody EXCEPT !.years_to_calculate = y] : y \in {Zero, Dec(-5, 0)} }
  \cup { [BaseBody EXCEPT !.points = n] : n \in {Zero, Dec(-2, 0)} }
  \cup { [BaseBody EXCEPT !.roof_division = dv] :
           dv \in { << Pair("Green Areas", Dec(60, 0)), Pair("Solar Power", Dec(40, 11)) >>,
                    << Pair("Green Areas", Dec(60, 0)), Pair("Solar Power", Dec(39, 995)) >>,
                    << Pair("Green Areas", Dec(60, 0)), Pair("Solar Power", Dec(39, 989)) >>,
                    << Pair("Green Areas", Dec(150, 0)), Pair("Solar Power", Dec(-50, 0)) >>,
                    << Pair("Green Areas", Dec(50, 0)) >>,
                    << >> } }
  \cup { [BaseBody EXCEPT !.climate_zone = z] : z \in {"arid", "continental", "mars"} }

Bodies == ValidBodies \cup EdgeBodies \cup {EmptyBody, TestBody}

Routes == {"/calculate", "/sales"}

(***************************************************************************)
(* THE STATE.                                                              *)
(***************************************************************************)
VARIABLES
  pc,                     \* where the request is: idle, loop, thrown, returned, responded
  route,                  \* the route of the request
  params,                 \* req.body
  i,                      \* the loop index of performCalculations (0-based)
  years_smooth,           \* the year grid
  co2_natural_decline,    \* the natural curve
  co2_with_improvements,  \* the improved curve, filled up to index i - 1
  results,                \* what performCalculations returned
  error,                  \* the message of the error it threw
  response,               \* the HTTP response
  calculations,           \* the rows of the calculations table
  log,                    \* the requests the handlers of one action each have served
  users,                  \* the rows of the users table
  tokens,                 \* the rows of the tokens table
  token_requests,         \* the rows of the token_requests table
  now,                    \* the clock, in seconds
  hits,                   \* the requests apiLimiter has counted in its window
  served,                 \* the last request to the server, with its response
  revocations,            \* the tokens whose revocation was answered 200
  inflight,               \* the approve handlers that are between two awaits
  script,                 \* where the deployment script is
  argv,                   \* the flags the deployment script was started with
  dbFile,                 \* database/data/co2calc.db: none, valid, corrupt, incomplete
  stages,                 \* the keys of summary.stages: the stages the script has logged
  runs,                   \* the runs of the deployment script, or the starts of the server, so far
  running,                \* the server process (index.js) is up
  JWT_SECRET,             \* the constant of middleware/auth.js and routes/auth.js
  environment,            \* process.env.JWT_SECRET of the process at work, "" when unset
  envFile                 \* JWT_SECRET of the file .env, "" when it has none

vars ==
  << pc, route, params, i, years_smooth, co2_natural_decline, co2_with_improvements,
     results, error, response, calculations, log,
     users, tokens, token_requests, now, hits, served, revocations,
     inflight, script, argv, dbFile, stages, runs, running, JWT_SECRET, environment,
     envFile >>

\* the processes around the request handlers: the approvals in flight, the
\* deployment script, the server process and its secret
processVars ==
  << inflight, script, argv, dbFile, stages, runs, running, JWT_SECRET, environment,
     envFile >>

\* what the calculation handlers leave alone
authVars ==
  << users, tokens, token_requests, now, hits, served, revocations, processVars >>

NoResponse == [status |-> 0]

\* no request to the server yet
NoRequest == [route |-> ""]

\* the users table after src/database/init-db.js: the default admin
InitialUsers ==
  << [id |-> 1, username |-> "admin", password |-> "admin123", role |-> "admin"] >>

\* the key the modules fall back to when process.env.JWT_SECRET is not set
FallbackSecret == "your-secret-key-change-in-production"

\* crypto.randomBytes(32).toString('hex'): the values it may give
Generated == { "generated-1", "generated-2" }

MaxApprovals == 2

\* no handler of POST /auth/token/:id/approve is at work
NoApproval == [pc |-> "idle", id |-> 0, approvedBy |-> 0, status |-> 0]

\* no request at work, empty tables but for users, and no deployment script
Quiet ==
  /\ pc = "idle"
  /\ route = ""
  /\ params = EmptyBody
  /\ i = 0
  /\ years_smooth = <<>>
  /\ co2_natural_decline = <<>>
  /\ co2_with_improvements = <<>>
  /\ results = NoResults
  /\ error = ""
  /\ response = NoResponse
  /\ calculations = <<>>
  /\ log = <<>>
  /\ tokens = <<>>
  /\ token_requests = <<>>
  /\ now = 0
  /\ hits = 0
  /\ served = NoRequest
  /\ revocations = {}
  /\ inflight = [p \in 1..MaxApprovals |-> NoApproval]
  /\ script = "off"
  /\ argv = {}
  /\ stages = {}
  /\ runs = 0

\* after src/database/init-db.js and a first node index.js with no JWT_SECRET in
\* the environment and none in .env: the modules hold the fallback, and
\* validateConfig has generated a secret into process.env and .env
Init ==
  /\ Quiet
  /\ users = InitialUsers
  /\ dbFile = "valid"
  /\ running = TRUE
  /\ JWT_SECRET = FallbackSecret
  /\ environment = "generated-1"
  /\ envFile = "generated-1"

\* the parameters of the current request, defaults applied
cfg == Destructure(params)

\* the number of points as an integer
NPoints(c) == c.points.v \div Scale

\* The handler is entered and calls performCalculations(req.body), which runs up
\* to its loop: it throws on an invalid parameter, and else builds the grid, the
\* natural curve and the array of the improved curve.
Call(r, body) ==
  /\ pc = "idle"
  /\ UNCHANGED authVars
  /\ Len(calculations) < MaxSaved
  /\ route' = r
  /\ params' = body
  /\ LET c == Destructure(body)
         years == linspace(Zero, c.years_to_calculate, c.points)
     IN  IF ValidationError(c) # ""
         THEN /\ pc' = "thrown"
              /\ error' = ValidationError(c)
              /\ UNCHANGED << i, years_smooth, co2_natural_decline,
                              co2_with_improvements >>
         ELSE /\ pc' = "loop"
              /\ error' = ""
              /\ i' = 1
              /\ years_smooth' = years
              /\ co2_natural_decline' = NaturalDecline(c, years)
              /\ co2_with_improvements' = InitialImproved(c, NPoints(c))
  /\ UNCHANGED << results, response, calculations, log >>

\* One iteration of the loop: sample i of the improved curve.
LoopStep ==
  /\ pc = "loop"
  /\ UNCHANGED authVars
  /\ i < Len(years_smooth)
  /\ co2_with_improvements' =
       [ co2_with_improvements EXCEPT
           ![i + 1] = ImprovedSample(cfg, years_smooth, co2_with_improvements, i + 1) ]
  /\ i' = i + 1
  /\ UNCHANGED << pc, route, params, years_smooth, co2_natural_decline, results,
                  error, response, calculations, log >>

\* The loop is over: performCalculations computes the rest and returns.
Return ==
  /\ pc = "loop"
  /\ UNCHANGED authVars
  /\ i >= Len(years_smooth)
  /\ results' = Results(cfg, years_smooth, co2_with_improvements, co2_natural_decline)
  /\ pc' = "returned"
  /\ UNCHANGED << route, params, i, years_smooth, co2_natural_decline,
                  co2_with_improvements, error, response, calculations, log >>

\* key_metrics.years_saved of the sales summary
years_saved(res) ==
  IF Truthy(res.neutrality.natural_decline) /\ Truthy(res.neutrality.with_improvements)
  THEN ToFixed1(Sub(res.neutrality.natural_decline, res.neutrality.with_improvements))
  ELSE Null

\* The route saves the calculation and answers 200.
Respond ==
  /\ pc = "returned"
  /\ UNCHANGED authVars
  /\ calculations' =
       Append(calculations,
              [type |-> IF route = "/sales" THEN "sales" ELSE "standard"])
  /\ response' =
       IF route = "/sales"
       THEN [ status |-> 200, success |-> TRUE,
              years_to_neutrality |->
                IF Truthy(results.neutrality.with_improvements)
                THEN ToFixed1(results.neutrality.with_improvements) ELSE Null,
              years_saved |-> years_saved(results),
              payback_years |-> ToFixed1(results.economics.simple_payback_years) ]
       ELSE [ status |-> 200, success |-> TRUE ]
  /\ pc' = "responded"
  /\ UNCHANGED << route, params, i, years_smooth, co2_natural_decline,
                  co2_with_improvements, results, error, log >>

\* The route's catch: the error thrown is answered 400, nothing is saved.
Catch ==
  /\ pc = "thrown"
  /\ UNCHANGED authVars
  /\ response' = [status |-> 400, success |-> FALSE, message |-> error]
  /\ pc' = "responded"
  /\ UNCHANGED << route, params, i, years_smooth, co2_natural_decline,
                  co2_with_improvements, results, error, calculations, log >>

\* The request is over; the server waits for the next one.
Done ==
  /\ pc = "responded"
  /\ UNCHANGED authVars
  /\ pc' = "idle"
  /\ route' = ""
  /\ params' = EmptyBody
  /\ i' = 0
  /\ years_smooth' = <<>>
  /\ co2_natural_decline' = <<>>
  /\ co2_with_improvements' = <<>>
  /\ results' = NoResults
  /\ error' = ""
  /\ response' = NoResponse
  /\ UNCHANGED << calculations, log >>

Next ==
  \/ \E r \in Routes, body \in Bodies : Call(r, body)
  \/ LoopStep
  \/ Return
  \/ Respond
  \/ Catch
  \/ Done

Spec == Init /\ [][Next]_vars

(***************************************************************************)
(* THE SOCIAL ROUTES (src/unnamed/part_003) and the engines as functions.  *)
(* POST /social/enhanced-calculate and POST /social/sdg-report run to      *)
(* their response without a step of another request in between (the       *)
(* engines are synchronous), so each is one action; so is POST /calculate  *)
(* here.  An action appends to log what it was given and what it answered. *)
(***************************************************************************)
MaxCalls == 2

\* Math.round(a)
MathRound(a) ==
  IF ~IsNum(a) THEN NaN ELSE IF a.k = "inf" THEN a
  ELSE MathFloor(Add(a, Dec(0, 500)))

\* Object.keys(sdgDescriptions): the SDGs the report can describe
sdgDescriptions == DefaultSdgFocus

\* the nine SDGs the report has no description of
OtherSdgs ==
  << "No Poverty", "Quality Education", "Gender Equality",
     "Industry, Innovation and Infrastructure", "Reduced Inequalities",
     "Sustainable Cities and Communities", "Responsible Consumption and Production",
     "Life Below Water", "Peace, Justice and Strong Institutions" >>

\* getSustainabilityRating in the place of getSdgAlignmentRating: a faulty variant
getSdgAlignmentRatingSevenTiers(score) == getSustainabilityRating(score)

\* getSdgAlignmentRating(score): the scale of five tiers
getSdgAlignmentRating(score) ==
  IF Geq(score, Dec(90, 0)) THEN "Exceptional"
  ELSE IF Geq(score, Dec(70, 0)) THEN "Strong"
  ELSE IF Geq(score, Dec(50, 0)) THEN "Good"
  ELSE IF Geq(score, Dec(30, 0)) THEN "Moderate"
  ELSE "Limited"

\* addressed.includes(sdg)
Includes(addressed, sdg) == \E j \in 1..Len(addressed) : addressed[j] = sdg

\* arr.slice(0, 3)
Slice3(arr) == SubSeq(arr, 1, IF Len(arr) < 3 THEN Len(arr) ELSE 3)

\* a faulty variant of generateSdgRecommendations: the SDGs are not filtered
generateSdgRecommendationsUnfiltered(addressed, all) ==
  [ current_alignment |->
      << Length(addressed),
         MathRound(Mul(Div(Length(addressed), Dec(17, 0)), Dec(100, 0))) >>,
    suggestions |->
      [ j \in 1..Len(Slice3(all)) |-> [sdg |-> all[j], suggestion |-> "Consider"] ] ]

\* generateSdgRecommendations(addressed, all)
generateSdgRecommendations(addressed, all) ==
  LET notAddressed == SelectSeq(all, LAMBDA sdg : ~Includes(addressed, sdg))
  IN  [ current_alignment |->
          << Length(addressed),
             MathRound(Mul(Div(Length(addressed), Dec(17, 0)), Dec(100, 0))) >>,
        suggestions |->
          IF Len(notAddressed) > 0
          THEN [ j \in 1..Len(Slice3(notAddressed)) |->
                   [sdg |-> notAddressed[j], suggestion |-> "Consider"] ]
          ELSE << [sdg |-> "All SDGs", suggestion |-> "Excellent work"] >> ]

\* the score of the standalone report: Math.min(100, (sdg_focus.length / 17) * 100)
sdgAlignmentScore(sdg_focus) ==
  MathMin(Dec(100, 0), Mul(Div(Length(sdg_focus), Dec(17, 0)), Dec(100, 0)))

\* the report POST /sdg-report builds
sdgReport(body) ==
  [ k |-> "report",
    roof_division |-> body.roof_division,
    sdg_alignment |->
      [ sdgs_addressed |->
          [ j \in 1..Len(body.sdg_focus) |->
              [ name |-> body.sdg_focus[j],
                described |-> Includes(sdgDescriptions, body.sdg_focus[j]) ] ],
        sdg_alignment_score |-> sdgAlignmentScore(body.sdg_focus),
        alignment_rating |-> getSdgAlignmentRating(sdgAlignmentScore(body.sdg_focus)) ],
    recommendations |-> generateSdgRecommendations(body.sdg_focus, sdgDescriptions) ]

\* the loop of performCalculations run to its end, from sample j on
RECURSIVE RunLoop(_, _, _, _)
RunLoop(c, years, improved, j) ==
  IF j > Len(years) THEN improved
  ELSE RunLoop(c, years,
               [improved EXCEPT ![j] = ImprovedSample(c, years, improved, j)], j + 1)

\* performCalculations(p): the error it throws or the results it returns
performCalculations(p) ==
  LET c == Destructure(p)
      years == linspace(Zero, c.years_to_calculate, c.points)
  IN  IF ValidationError(c) # ""
      THEN [error |-> ValidationError(c), results |-> NoResults]
      ELSE [ error |-> "",
             results |->
               Results(c, years, RunLoop(c, years, InitialImproved(c, NPoints(c)), 2),
                       NaturalDecline(c, years)) ]

\* a faulty variant of performEnhancedCalculations: the default sdg_focus is one
\* array shared by the calls, and grows with every calculation saved
performEnhancedCalculationsShared(p) ==
  LET c == [ DestructureEnhanced(p) EXCEPT
               !.sdg_focus = IF "sdg_focus" \in p.given THEN p.sdg_focus
                             ELSE SubSeq(DefaultSdgFocus, 1, 8 - Len(calculations)) ]
  IN  IF EnhancedValidationError(c) # ""
      THEN [error |-> EnhancedValidationError(c), results |-> NoResults]
      ELSE [error |-> "", results |-> EnhancedResults(c)]

\* performEnhancedCalculations(p): the error it throws or the results it returns
performEnhancedCalculations(p) ==
  LET c == DestructureEnhanced(p)
  IN  IF EnhancedValidationError(c) # ""
      THEN [error |-> EnhancedValidationError(c), results |-> NoResults]
      ELSE [error |-> "", results |-> EnhancedResults(c)]

\* a faulty variant of ParamsLeftBy: the engine writes the default roof_division
\* into params
ParamsDefaultsWritten(p) == [p EXCEPT !.given = p.given \cup {"roof_division"}]

\* params after an engine has run on it: neither engine assigns to params, to a
\* property of it or to a property of one of its maps
ParamsLeftBy(p) == p

\* a body of POST /enhanced-calculate that gives no property
EmptyEnhancedBody ==
  [ given |-> {}, roof_area |-> Zero, GWP_roof |-> Zero, roof_division |-> <<>>,
    plant_absorption |-> Zero, solar_reduction |-> Zero, social_metrics |-> <<>>,
    health_metrics |-> <<>>, sdg_focus |-> <<>>, years_to_calculate |-> Zero ]

\* the default roof with a horizon of two years
EnhancedBase ==
  [ EmptyEnhancedBody EXCEPT
      !.given = {"years_to_calculate"}, !.years_to_calculate = Dec(2, 0) ]

\* the first n of the 17 SDGs, and one more
AllSdgs == DefaultSdgFocus \o OtherSdgs
SdgPrefix(n) ==
  IF n <= Len(AllSdgs) THEN SubSeq(AllSdgs, 1, n)
  ELSE AllSdgs \o SubSeq(AllSdgs, 1, n - Len(AllSdgs))

\* the lists of SDGs of the bodies: of the lengths on both sides of each rating
\* threshold, from none to one more than 17, with a duplicate, with a name outside the catalog alone and in the place of
\* a described one
SdgLists ==
  { SdgPrefix(n) : n \in {0, 1, 5, 6, 8, 9, 12, 16, 17, 18} }
  \cup { << "Climate Action", "Climate Action" >>, << "No Poverty" >>,
         << "No Poverty" >> \o SubSeq(DefaultSdgFocus, 2, 8) }

\* the bodies of POST /enhanced-calculate: the base with one parameter changed
EnhancedBodies ==
  { EmptyEnhancedBody, EnhancedBase }
  \cup { [ EnhancedBase EXCEPT !.given = @ \cup {"roof_area", "GWP_roof"},
                               !.roof_area = r[1], !.GWP_roof = r[2] ] :
           r \in { <<Dec(100, 0), Dec(3, 330)>>, <<Dec(2000, 0), Dec(3, 0)>>,
                   <<MinValue, MinValue>>, <<Zero, Dec(3, 0)>>,
                   <<Dec(100, 0), Dec(-1, 0)>> } }
  \cup { [ EnhancedBase EXCEPT !.given = @ \cup {"roof_division"},
                               !.roof_division = dv ] :
           dv \in { << Pair("Green Areas", Dec(50, 0)), Pair("Solar Power", Dec(50, 0)) >>,
                    << Pair("Green Areas", Dec(50, 0)), Pair("Plants", Dec(50, 0)) >>,
                    << Pair("constructor", Dec(100, 0)) >>,
                    << Pair("Green Areas", Dec(60, 0)), Pair("Solar Power", Dec(50, 0)) >> } }
  \cup { [ EnhancedBase EXCEPT !.given = @ \cup {"social_metrics"},
                               !.social_metrics = sm ] :
           sm \in { << >>, << Pair("happiness", Dec(150, 0)) >>,
                    << Pair("trust", Dec(-20, 0)), Pair("joy", Dec(5, 0)) >> } }
  \cup { [ EnhancedBase EXCEPT !.given = @ \cup {"health_metrics"},
                               !.health_metrics = hm ] :
           hm \in { << Pair("hypertension_reduction", Dec(5, 0)) >>,
                    << Pair("hypertension_reduction", Dec(5, 0)),
                       Pair("mortality_reduction", Dec(1, 0)),
                       Pair("heat_wave_temperature", Dec(20, 0)) >> } }
  \cup { [ EnhancedBase EXCEPT !.given = @ \cup {"plant_absorption", "solar_reduction"},
                               !.plant_absorption = Zero, !.solar_reduction = Zero ] }
  \cup { [ EnhancedBase EXCEPT !.given = @ \cup {"sdg_focus"}, !.sdg_focus = l ] :
           l \in { SdgPrefix(n) : n \in {0, 1, 16, 17, 18} } }

\* the bodies of POST /sdg-report: sdg_focus an array, a string or missing,
\* roof_division given or not
SdgBodies ==
  { [ given |-> {"roof_division", "sdg_focus"}, roof_division |-> DefaultRoofDivision,
      sdg_focus |-> l, sdg_kind |-> "array" ] : l \in SdgLists }
  \cup { [ given |-> {"sdg_focus"}, roof_division |-> <<>>,
           sdg_focus |-> DefaultSdgFocus, sdg_kind |-> "array" ],
         [ given |-> {"roof_division"}, roof_division |-> DefaultRoofDivision,
           sdg_focus |-> <<>>, sdg_kind |-> "missing" ],
         [ given |-> {"roof_division", "sdg_focus"}, roof_division |-> DefaultRoofDivision,
           sdg_focus |-> << "Climate Action" >>, sdg_kind |-> "string" ] }

\* the bodies of POST /calculate in this part: an accepted one and a refused one
SmallBodies ==
  { BaseBody, [BaseBody EXCEPT !.points = One], [BaseBody EXCEPT !.roof_area = Zero] }

\* POST /social/enhanced-calculate
EnhancedCalculate(body) ==
  /\ pc = "idle"
  /\ UNCHANGED authVars
  /\ Len(log) < MaxCalls
  /\ LET out == performEnhancedCalculations(body)
     IN  /\ log' = Append(log,
                     [ route |-> "/enhanced-calculate", input |-> body,
                       input_after |-> ParamsLeftBy(body),
                       status |-> IF out.error = "" THEN 200 ELSE 400,
                       error |-> out.error, results |-> out.results ])
         /\ calculations' =
              IF out.error = "" THEN Append(calculations, [type |-> "enhanced"])
              ELSE calculations
  /\ UNCHANGED << pc, route, params, i, years_smooth, co2_natural_decline,
                  co2_with_improvements, results, error, response >>

\* POST /social/sdg-report
SdgReport(body) ==
  /\ pc = "idle"
  /\ UNCHANGED authVars
  /\ Len(log) < MaxCalls
  /\ LET refused == \/ "roof_division" \notin body.given
                    \/ "sdg_focus" \notin body.given
                    \/ body.sdg_kind # "array"
     IN  /\ log' = Append(log,
                     [ route |-> "/sdg-report", input |-> body, input_after |-> body,
                       status |-> IF refused THEN 400 ELSE 200,
                       error |->
                         IF refused
                         THEN "Roof division and SDG focus array are required" ELSE "",
                       results |-> IF refused THEN NoResults ELSE sdgReport(body) ])
         /\ calculations' =
              IF refused THEN calculations
              ELSE Append(calculations, [type |-> "sdg-report"])
  /\ UNCHANGED << pc, route, params, i, years_smooth, co2_natural_decline,
                  co2_with_improvements, results, error, response >>

\* POST /calculate, from the request to the response
Calculate(body) ==
  /\ pc = "idle"
  /\ UNCHANGED authVars
  /\ Len(log) < MaxCalls
  /\ LET out == performCalculations(body)
     IN  /\ log' = Append(log,
                     [ route |-> "/calculate", input |-> body,
                       input_after |-> ParamsLeftBy(body),
                       status |-> IF out.error = "" THEN 200 ELSE 400,
                       error |-> out.error, results |-> out.results ])
         /\ calculations' =
              IF out.error = "" THEN Append(calculations, [type |-> "standard"])
              ELSE calculations
  /\ UNCHANGED << pc, route, params, i, years_smooth, co2_natural_decline,
                  co2_with_improvements, results, error, response >>

SocialNext ==
  \/ \E body \in EnhancedBodies : EnhancedCalculate(body)
  \/ \E body \in SdgBodies : SdgReport(body)
  \/ \E body \in SmallBodies : Calculate(body)

SocialSpec == Init /\ [][SocialNext]_vars

(***************************************************************************)
(* AUTHENTICATION AND ADMINISTRATION.                                      *)
(* The server as src/DEPLOYMENT.md mounts it: apiLimiter on /calculate and *)
(* /social, then the routers, whose routes name authenticate and           *)
(* requireAdmin before their handlers. Each action is one request, from    *)
(* its arrival to its response; every body is JSON that parses. A row's id *)
(* is its place in its table and stands for the uuid the code gives it.    *)
(* Logins and token requests stay within authLimiter's hourly limit.       *)
(***************************************************************************)
\* the rows the tokens table and the token_requests table may hold
MaxTokens == 2
MaxRequests == 1
\* the steps of the clock
MaxTicks == 1
\* the requests apiLimiter lets through in one window (max: 100 in the code)
MaxHits == 1

\* '30d' and '365d' in seconds, and the 15 minutes of apiLimiter's window
TOKEN_EXPIRY == 2592000
API_TOKEN_EXPIRY == 31536000
apiLimiterWindow == 900

Range(s) == { s[k] : k \in 1..Len(s) }

\* the payload of a token; an API token has no username and no role
Payload(id, username, role, type) ==
  [id |-> id, username |-> username, role |-> role, type |-> type]

NoPayload == Payload(0, "", "undefined", "undefined")

\* jwt.sign: a token is its payload, the key that signed it, and iat and exp
jwtSign(payload, secret, expiresIn) ==
  [payload |-> payload, secret |-> secret, iat |-> now, exp |-> now + expiresIn]

\* jwt.verify: the signature under the key, and the expiry
jwtVerify(token, secret) == token.secret = secret /\ now < token.exp

\* the Authorization header: none, a scheme with no token, a scheme and a token
NoToken == [payload |-> NoPayload, secret |-> "", iat |-> 0, exp |-> 0]
NoHeader == [k |-> "none", token |-> NoToken]
SchemeOnly == [k |-> "scheme", token |-> NoToken]
Bearer(token) == [k |-> "bearer", token |-> token]

\* an admin token signed with another key, and one signed with JWT_SECRET that
\* no row holds
ForgedToken ==
  [ payload |-> Payload(1, "admin", "admin", "undefined"), secret |-> "guess",
    iat |-> 0, exp |-> API_TOKEN_EXPIRY ]
UnstoredToken ==
  [ payload |-> Payload(1, "admin", "admin", "undefined"), secret |-> JWT_SECRET,
    iat |-> -1, exp |-> API_TOKEN_EXPIRY ]

\* the headers a client may send: the tokens of the table are those it was given
Headers == { NoHeader } \cup { Bearer(row.token) : row \in Range(tokens) }

\* and those sent to GET /history
AllHeaders == Headers \cup { SchemeOnly, Bearer(ForgedToken), Bearer(UnstoredToken) }

\* the calculations table behind the routes with a user: a row has the uuid it
\* was given, here its number, and the user_id, which REFERENCES users (id)
\* under PRAGMA foreign_keys = ON; no query selects on type, parameters or results
CalculationSaveThrows(userId) == \A u \in Range(users) : u.id # userId

CalculationSave(rows, userId) ==
  Append(rows, [id |-> Len(rows) + 1, user_id |-> userId])

\* Calculation.findById that does not look at the user: a faulty variant
CalculationFindByIdAnyUser(id, userId) ==
  { row \in Range(calculations) : row.id = id }

\* Calculation.findById: SELECT * FROM calculations WHERE id = ? AND user_id = ?
CalculationFindById(id, userId) ==
  { row \in Range(calculations) : row.id = id /\ row.user_id = userId }

\* Calculation.getAllForUser: SELECT * FROM calculations WHERE user_id = ?
CalculationGetAllForUser(userId) ==
  { row \in Range(calculations) : row.user_id = userId }

\* Token.findByToken that does not look at revoked: a faulty variant
TokenFindByTokenRevokedToo(token) ==
  { row \in Range(tokens) : row.token = token }

\* Token.findByToken: SELECT * FROM tokens WHERE token = ? AND revoked = 0
TokenFindByToken(token) ==
  { row \in Range(tokens) : row.token = token /\ row.revoked = 0 }

\* Token.create: the INSERT, refused when the token is in the table (UNIQUE)
TokenCreateThrows(token) == \E row \in Range(tokens) : row.token = token

TokenCreate(userId, requestId, token) ==
  Append(tokens, [ id |-> Len(tokens) + 1, user_id |-> userId,
                   request_id |-> requestId, token |-> token, revoked |-> 0 ])

\* Token.revoke: UPDATE tokens SET revoked = 1 WHERE id = ?
TokenRevoke(id) == [tokens EXCEPT ![id].revoked = 1]

\* authenticate: the status it answers with, 0 for next(), and req.user
authenticate(header) ==
  IF header.k = "none" THEN [status |-> 401, user |-> NoPayload]
  ELSE IF header.k = "scheme" THEN [status |-> 401, user |-> NoPayload]
  ELSE IF ~ jwtVerify(header.token, JWT_SECRET)
       THEN [status |-> 401, user |-> NoPayload]
  ELSE IF TokenFindByToken(header.token) = {}
       THEN [status |-> 401, user |-> header.token.payload]
  ELSE [status |-> 0, user |-> header.token.payload]

\* requireAdmin that lets every authenticated user through: a faulty variant
requireAdminAnyUser(user) == IF user = NoPayload THEN 403 ELSE 0

\* requireAdmin: the status it answers with, 0 for next()
requireAdmin(user) == IF user = NoPayload \/ user.role # "admin" THEN 403 ELSE 0

\* the routes behind authenticate and requireAdmin, those behind authenticate
\* alone, and those mounted under a path of apiLimiter
AdminRoutes ==
  { "GET /admin/users", "POST /admin/users", "GET /auth/token",
    "GET /auth/token/requests", "POST /auth/token/:id/approve",
    "POST /auth/token/:id/revoke" }
CalculationRoutes ==
  { "POST /simple-calculate", "POST /calculate", "POST /batch", "POST /compare",
    "GET /history", "GET /history/:id", "GET /export/:id" }
ProtectedRoutes == AdminRoutes \cup CalculationRoutes \cup { "POST /social/sdg-report" }
LimitedRoutes == { "POST /calculate", "POST /social/sdg-report" }

\* a request: its route, its Authorization header, its body and the :id of its path
RequestWith(r, header, body, id) ==
  [route |-> r, header |-> header, body |-> body, id |-> id]

Request(r, header) == RequestWith(r, header, <<>>, 0)

\* apiLimiter: the window is full
Limited(req) == req.route \in LimitedRoutes /\ hits >= MaxHits

\* what answers before the handler: the status, 0 when the handler is reached
Gate(req) ==
  IF Limited(req) THEN 429
  ELSE LET a == authenticate(req.header)
       IN  IF a.status # 0 THEN a.status
           ELSE IF req.route \in AdminRoutes THEN requireAdmin(a.user)
           ELSE 0

\* what a handler does: its status and the tables it leaves
Leaves(status) ==
  [ status |-> status, users |-> users, tokens |-> tokens,
    token_requests |-> token_requests, revocations |-> revocations,
    calculations |-> calculations, returned |-> {} ]

\* one request: the middleware, then the handler when it is reached (g = 0);
\* served keeps the route, what the header holds, the response and what held
\* when the request arrived
Outcome(req, g, out) ==
  /\ users' = IF g = 0 THEN out.users ELSE users
  /\ tokens' = IF g = 0 THEN out.tokens ELSE tokens
  /\ token_requests' = IF g = 0 THEN out.token_requests ELSE token_requests
  /\ revocations' = IF g = 0 THEN out.revocations ELSE revocations
  /\ calculations' = IF g = 0 THEN out.calculations ELSE calculations
  /\ hits' = IF req.route \in LimitedRoutes /\ hits < MaxHits THEN hits + 1 ELSE hits
  /\ served' =
       [ route |-> req.route, body |-> req.body, id |-> req.id,
         caller |-> IF g = 0 /\ req.route \in CalculationRoutes
                    THEN authenticate(req.header).user.id ELSE 0,
         returned |-> IF g = 0 THEN out.returned ELSE {},
         k |-> req.header.k,
         role |-> req.header.token.payload.role,
         type |-> req.header.token.payload.type,
         status |-> IF g = 0 THEN out.status ELSE g,
         reached |-> g = 0,
         verified |-> /\ req.header.k = "bearer"
                      /\ req.header.token.secret = JWT_SECRET
                      /\ now < req.header.token.exp,
         stored |-> \E k \in 1..Len(tokens) :
                      tokens[k].token = req.header.token /\ tokens[k].revoked = 0,
         revoked |-> req.header.k = "bearer" /\ req.header.token \in revocations,
         limited |-> Limited(req),
         changed |-> << users', tokens', token_requests', revocations', calculations' >>
                     # << users, tokens, token_requests, revocations, calculations >> ]
  /\ UNCHANGED << now, pc, route, params, i, years_smooth, co2_natural_decline,
                  co2_with_improvements, results, error, response, log, processVars >>

\* POST /auth/login
LoginBodies ==
  { [username |-> "admin", password |-> "admin123"],
    [username |-> "admin", password |-> "guess"],
    [username |-> "bob", password |-> "bob-pw"],
    [username |-> "", password |-> ""] }

UserVerify(username, password) ==
  { u \in Range(users) : u.username = username /\ u.password = password }

Login(body) ==
  /\ pc = "idle"
  /\ Len(tokens) < MaxTokens
  /\ LET found == UserVerify(body.username, body.password)
         user == CHOOSE u \in found : TRUE
         token == jwtSign(Payload(user.id, user.username, user.role, "undefined"),
                          JWT_SECRET, TOKEN_EXPIRY)
         out == IF body.username = "" \/ body.password = "" THEN Leaves(400)
                ELSE IF found = {} THEN Leaves(401)
                ELSE IF TokenCreateThrows(token) THEN Leaves(500)
                ELSE [Leaves(200) EXCEPT !.tokens = TokenCreate(user.id, 0, token)]
     IN  Outcome(Request("POST /auth/login", NoHeader), 0, out)

\* POST /auth/token/request
TokenRequest(complete) ==
  /\ pc = "idle"
  /\ Len(token_requests) < MaxRequests
  /\ LET out == IF ~ complete THEN Leaves(400)
                ELSE [Leaves(200) EXCEPT !.token_requests =
                        Append(token_requests,
                               [id |-> Len(token_requests) + 1, status |-> "pending"])]
     IN  Outcome(Request("POST /auth/token/request", NoHeader), 0, out)

\* GET /admin/users
GetUsers(header) ==
  /\ pc = "idle"
  /\ LET req == Request("GET /admin/users", header)
     IN  Outcome(req, Gate(req), Leaves(200))

\* POST /admin/users
UserBodies ==
  { [username |-> "bob", password |-> "bob-pw", role |-> "user"],
    [username |-> "bob", password |-> "bob-pw", role |-> "guest"],
    [username |-> "", password |-> "", role |-> ""] }

PostUsers(header, body) ==
  /\ pc = "idle"
  /\ LET req == Request("POST /admin/users", header)
         out == IF body.username = "" \/ body.password = "" \/ body.role = ""
                THEN Leaves(400)
                ELSE IF body.role \notin {"admin", "user"} THEN Leaves(400)
                ELSE IF \E u \in Range(users) : u.username = body.username
                     THEN Leaves(400)
                ELSE [Leaves(201) EXCEPT !.users =
                        Append(users, [ id |-> Len(users) + 1, username |-> body.username,
                                        password |-> body.password, role |-> body.role ])]
     IN  Outcome(req, Gate(req), out)

\* GET /auth/token
GetTokens(header) ==
  /\ pc = "idle"
  /\ LET req == Request("GET /auth/token", header)
     IN  Outcome(req, Gate(req), Leaves(200))

\* GET /auth/token/requests
GetTokenRequests(header) ==
  /\ pc = "idle"
  /\ LET req == Request("GET /auth/token/requests", header)
     IN  Outcome(req, Gate(req), Leaves(200))

\* POST /auth/token/:id/approve; the uuid of the payload stands as a number no
\* user has
Approve(header, id) ==
  /\ pc = "idle"
  /\ LET req == Request("POST /auth/token/:id/approve", header)
         g == Gate(req)
         found == id \in 1..Len(token_requests)
         apiToken == jwtSign(Payload(0 - (Len(tokens) + 1), "", "undefined", "api_token"),
                             JWT_SECRET, API_TOKEN_EXPIRY)
         out == IF ~ found THEN Leaves(404)
                ELSE IF token_requests[id].status # "pending" THEN Leaves(400)
                ELSE [Leaves(200) EXCEPT
                        !.token_requests = [token_requests EXCEPT ![id].status = "approved"],
                        !.tokens = TokenCreate(authenticate(header).user.id, id, apiToken)]
     IN  /\ (g = 0 /\ out.status = 200) => Len(tokens) < MaxTokens
         /\ Outcome(req, g, out)

\* POST /auth/token/:id/revoke
Revoke(header, id) ==
  /\ pc = "idle"
  /\ LET req == Request("POST /auth/token/:id/revoke", header)
         found == id \in 1..Len(tokens)
         out == IF ~ found THEN Leaves(404)
                ELSE IF tokens[id].revoked = 1 THEN Leaves(400)
                ELSE [Leaves(200) EXCEPT
                        !.tokens = TokenRevoke(id),
                        !.revocations = revocations \cup {tokens[id].token}]
     IN  Outcome(req, Gate(req), out)

\* GET /history
History(header) ==
  /\ pc = "idle"
  /\ LET req == Request("GET /history", header)
         rows == CalculationGetAllForUser(authenticate(header).user.id)
     IN  Outcome(req, Gate(req), [Leaves(200) EXCEPT !.returned = rows])

\* POST /social/sdg-report, behind apiLimiter, with the body {}: the handler
\* refuses it and saves nothing
SdgReportRoute(header) ==
  /\ pc = "idle"
  /\ LET req == Request("POST /social/sdg-report", header)
     IN  Outcome(req, Gate(req), Leaves(400))

\* time passes: the life of a login token, which ends apiLimiter's window. Two
\* logins of one user between two steps are logins within one second.
TickSeconds == TOKEN_EXPIRY

Tick ==
  /\ pc = "idle"
  /\ now < MaxTicks * TickSeconds
  /\ now' = now + TickSeconds
  /\ hits' = IF TickSeconds >= apiLimiterWindow THEN 0 ELSE hits
  /\ served' = NoRequest
  /\ UNCHANGED << users, tokens, token_requests, revocations, calculations,
                  pc, route, params, i, years_smooth, co2_natural_decline,
                  co2_with_improvements, results, error, response, log, processVars >>

AuthNext ==
  \/ \E body \in LoginBodies : Login(body)
  \/ \E complete \in BOOLEAN : TokenRequest(complete)
  \/ \E header \in Headers : GetUsers(header)
  \/ \E header \in Headers, body \in UserBodies : PostUsers(header, body)
  \/ \E header \in Headers : GetTokens(header)
  \/ \E header \in Headers : GetTokenRequests(header)
  \/ \E header \in Headers, id \in 1..(Len(token_requests) + 1) : Approve(header, id)
  \/ \E header \in Headers, id \in 1..(Len(tokens) + 1) : Revoke(header, id)
  \/ \E header \in AllHeaders : History(header)
  \/ \E header \in Headers : SdgReportRoute(header)
  \/ Tick

AuthSpec == Init /\ [][AuthNext]_vars

(***************************************************************************)
(* THE CALCULATION ROUTES, one request per action, behind authenticate:    *)
(* what each saves under which user, and what GET /history, /history/:id   *)
(* and /export/:id hand back. The users and tokens are those that          *)
(* POST /admin/users, /auth/login, /auth/token/request and                 *)
(* /auth/token/:id/approve have made.                                      *)
(***************************************************************************)
MaxRows == 2
MaxBatch == 2

\* crypto.createHash('sha256').update(id).digest('hex'): 64 hex digits, which
\* no uuid is; it stands as a number no user and no token has
sha256(id) == 1000 + id

\* POST /simple-calculate
SimpleBodies ==
  { [ EmptyBody EXCEPT !.given = given, !.roof_area = a, !.roof_division = d ] :
      given \in { {"roof_area", "roof_division"} },
      a \in { Dec(100, 0), Dec(-1, 0) },
      d \in { << Pair("Green Areas", Dec(50, 0)), Pair("Solar Power", Dec(50, 0)) >>,
              << Pair("Green Areas", Dec(60, 0)), Pair("Solar Power", Dec(50, 0)) >> } }
  \cup { [ EmptyBody EXCEPT !.given = {"roof_division"}, !.roof_area = Undefined,
             !.roof_division = << Pair("Green Areas", Dec(100, 0)) >> ] }

\* the parameters /simple-calculate hands to performCalculations
calculationParams(body) ==
  [ body EXCEPT
      !.given = {"roof_area", "roof_division", "GWP_roof", "climate_zone",
                 "efficiency_degradation"},
      !.GWP_roof = Dec(3, 0), !.climate_zone = "temperate",
      !.efficiency_degradation = Dec(0, 5) ]

\* performCalculations(p) throws: the message, "" when it returns
performCalculationsThrows(p) == ValidationError(Destructure(p))

SimpleCalculate(header, body) ==
  /\ pc = "idle"
  /\ LET req == RequestWith("POST /simple-calculate", header, body, 0)
         hashedUserId == sha256(authenticate(header).user.id)
         saved == CalculationSave(calculations, hashedUserId)
         out == IF ~ Truthy(body.roof_area) \/ "roof_division" \notin body.given
                THEN Leaves(400)
                ELSE IF Leq(body.roof_area, Zero) THEN Leaves(400)
                ELSE IF Gt(MathAbs(Sub(totalPercentage(body), Dec(100, 0))), Dec(0, 10))
                     THEN Leaves(400)
                ELSE IF performCalculationsThrows(calculationParams(body)) # ""
                     THEN Leaves(400)
                ELSE IF CalculationSaveThrows(hashedUserId) THEN Leaves(400)
                ELSE [Leaves(200) EXCEPT !.calculations = saved,
                                         !.returned = {saved[Len(saved)]}]
     IN  /\ Len(out.calculations) <= MaxRows
         /\ Outcome(req, Gate(req), out)

\* POST /calculate, behind apiLimiter
CalculateBodies == { TestBody, [TestBody EXCEPT !.roof_area = Zero] }

CalculateRoute(header, body) ==
  /\ pc = "idle"
  /\ LET req == RequestWith("POST /calculate", header, body, 0)
         userId == authenticate(header).user.id
         saved == CalculationSave(calculations, userId)
         out == IF performCalculationsThrows(body) # "" THEN Leaves(400)
                ELSE IF CalculationSaveThrows(userId) THEN Leaves(400)
                ELSE [Leaves(200) EXCEPT !.calculations = saved,
                                         !.returned = {saved[Len(saved)]}]
     IN  /\ Len(out.calculations) <= MaxRows
         /\ Outcome(req, Gate(req), out)

\* POST /batch: common_parameters and the buildings, each with its building_id
\* ("" when it has none) and the parameters of its own
common_parameters ==
  [ EmptyBody EXCEPT !.given = {"roof_area", "GWP_roof"},
                     !.roof_area = Dec(100, 0), !.GWP_roof = Dec(3, 0) ]

Building(building_id, given, roof_area) ==
  [ building_id |-> building_id,
    parameters |-> [EmptyBody EXCEPT !.given = given, !.roof_area = roof_area] ]

Buildings ==
  { Building("building-001", {"roof_area"}, Dec(2000, 0)),
    Building("building-002", {"roof_area"}, Zero),
    Building("", {}, Zero) }

SeqsUpTo(S, n) == UNION { [1..m -> S] : m \in 0..n }

\* { ...common_parameters, ...building }
Spread(common, own) ==
  [ f \in DOMAIN own |->
      IF f = "given" THEN common.given \cup own.given
      ELSE IF f \in own.given THEN own[f] ELSE common[f] ]

\* the loop of /batch from building j on: the status it ends with and the rows
RECURSIVE BatchLoop(_, _, _, _)
BatchLoop(rows, buildings, userId, j) ==
  IF j > Len(buildings) THEN [status |-> 200, calculations |-> rows]
  ELSE IF buildings[j].building_id = "" THEN [status |-> 400, calculations |-> rows]
  ELSE IF performCalculationsThrows(Spread(common_parameters, buildings[j].parameters)) # ""
       THEN [status |-> 400, calculations |-> rows]
  ELSE IF CalculationSaveThrows(userId) THEN [status |-> 400, calculations |-> rows]
  ELSE BatchLoop(CalculationSave(rows, userId), buildings, userId, j + 1)

\* the rows a request added
Added(rows) == { rows[k] : k \in (Len(calculations) + 1)..Len(rows) }

Batch(header, buildings) ==
  /\ pc = "idle"
  /\ LET req == RequestWith("POST /batch", header, buildings, 0)
         loop == BatchLoop(calculations, buildings, authenticate(header).user.id, 1)
         out == IF Len(buildings) = 0 THEN Leaves(400)
                ELSE [Leaves(loop.status) EXCEPT
                        !.calculations = loop.calculations,
                        !.returned = IF loop.status = 200
                                     THEN Added(loop.calculations) ELSE {}]
     IN  /\ Len(out.calculations) <= MaxRows
         /\ Outcome(req, Gate(req), out)

\* POST /compare: the scenarios, each with its name ("" when it has none) and
\* its parameters (given or not)
Scenario(name, given, roof_area) ==
  [ name |-> name, given |-> given,
    parameters |-> [EmptyBody EXCEPT !.given = {"roof_area"}, !.roof_area = roof_area] ]

Scenarios ==
  { Scenario("Current", TRUE, Dec(2000, 0)), Scenario("Broken", TRUE, Zero),
    Scenario("", TRUE, Dec(2000, 0)), Scenario("Empty", FALSE, Zero) }

RECURSIVE CompareLoop(_, _, _, _)
CompareLoop(rows, scenarios, userId, j) ==
  IF j > Len(scenarios) THEN [status |-> 200, calculations |-> rows]
  ELSE IF scenarios[j].name = "" \/ ~ scenarios[j].given
       THEN [status |-> 400, calculations |-> rows]
  ELSE IF performCalculationsThrows(scenarios[j].parameters) # ""
       THEN [status |-> 400, calculations |-> rows]
  ELSE IF CalculationSaveThrows(userId) THEN [status |-> 400, calculations |-> rows]
  ELSE CompareLoop(CalculationSave(rows, userId), scenarios, userId, j + 1)

Compare(header, scenarios) ==
  /\ pc = "idle"
  /\ LET req == RequestWith("POST /compare", header, scenarios, 0)
         loop == CompareLoop(calculations, scenarios, authenticate(header).user.id, 1)
         out == IF Len(scenarios) < 2 THEN Leaves(400)
                ELSE [Leaves(loop.status) EXCEPT
                        !.calculations = loop.calculations,
                        !.returned = IF loop.status = 200
                                     THEN Added(loop.calculations) ELSE {}]
     IN  /\ Len(out.calculations) <= MaxRows
         /\ Outcome(req, Gate(req), out)

\* GET /history/:id
HistoryById(header, id) ==
  /\ pc = "idle"
  /\ LET req == RequestWith("GET /history/:id", header, <<>>, id)
         calculation == CalculationFindById(id, authenticate(header).user.id)
         out == IF calculation = {} THEN Leaves(404)
                ELSE [Leaves(200) EXCEPT !.returned = calculation]
     IN  Outcome(req, Gate(req), out)

\* GET /export/:id?format=
Formats == { "json", "csv", "xml" }

ExportById(header, id, format) ==
  /\ pc = "idle"
  /\ LET req == RequestWith("GET /export/:id", header, format, id)
         calculation == CalculationFindById(id, authenticate(header).user.id)
         out == IF calculation = {} THEN Leaves(404)
                ELSE IF format \in {"json", "csv"}
                     THEN [Leaves(200) EXCEPT !.returned = calculation]
                ELSE Leaves(400)
     IN  Outcome(req, Gate(req), out)

StoreNext ==
  \/ \E body \in LoginBodies : Login(body)
  \/ \E header \in Headers, body \in UserBodies : PostUsers(header, body)
  \/ \E complete \in BOOLEAN : TokenRequest(complete)
  \/ \E header \in Headers, id \in 1..(Len(token_requests) + 1) : Approve(header, id)
  \/ \E header \in Headers, body \in SimpleBodies : SimpleCalculate(header, body)
  \/ \E header \in Headers, body \in CalculateBodies : CalculateRoute(header, body)
  \/ \E header \in Headers, buildings \in SeqsUpTo(Buildings, MaxBatch) :
       Batch(header, buildings)
  \/ \E header \in Headers, scenarios \in SeqsUpTo(Scenarios, MaxBatch) :
       Compare(header, scenarios)
  \/ \E header \in Headers : History(header)
  \/ \E header \in Headers, id \in 1..(Len(calculations) + 1) : HistoryById(header, id)
  \/ \E header \in Headers, id \in 1..(Len(calculations) + 1), format \in Formats :
       ExportById(header, id, format)

StoreSpec == Init /\ [][StoreNext]_vars

(***************************************************************************)
(* POST /auth/token/:id/approve, await by await: the handler reads the     *)
(* request, updates its status and creates the token in three database    *)
(* operations, and another handler may run between any two of them.       *)
(***************************************************************************)
calcVars ==
  << pc, route, params, i, years_smooth, co2_natural_decline, co2_with_improvements,
     results, error, response, log >>

\* authenticate and requireAdmin, up to the handler's first await
ApproveStart(p, header, id) ==
  /\ pc = "idle"
  /\ inflight[p].pc \in {"idle", "done"}
  /\ LET req == RequestWith("POST /auth/token/:id/approve", header, <<>>, id)
         g == Gate(req)
     IN  inflight' =
           [inflight EXCEPT ![p] =
              IF g # 0 THEN [pc |-> "done", id |-> id, approvedBy |-> 0, status |-> g]
              ELSE [ pc |-> "findById", id |-> id,
                     approvedBy |-> authenticate(header).user.id, status |-> 0 ]]
  /\ UNCHANGED << calcVars, calculations, users, tokens, token_requests, now, hits,
                  served, revocations, script, argv, dbFile, stages, runs, running,
                  JWT_SECRET, environment, envFile >>

\* await TokenRequest.findById(requestId), and the two tests of what it gave
ApproveFindById(p) ==
  /\ inflight[p].pc = "findById"
  /\ LET id == inflight[p].id
     IN  inflight' =
           [inflight EXCEPT ![p] =
              IF id \notin 1..Len(token_requests) THEN [@ EXCEPT !.pc = "done", !.status = 404]
              ELSE IF token_requests[id].status # "pending"
                   THEN [@ EXCEPT !.pc = "done", !.status = 400]
              ELSE [@ EXCEPT !.pc = "approve"]]
  /\ UNCHANGED << calcVars, calculations, users, tokens, token_requests, now, hits,
                  served, revocations, script, argv, dbFile, stages, runs, running,
                  JWT_SECRET, environment, envFile >>

\* await TokenRequest.approve(requestId, req.user.id): UPDATE token_requests SET
\* status = 'approved' ... WHERE id = ?
ApproveUpdate(p) ==
  /\ inflight[p].pc = "approve"
  /\ token_requests' = [token_requests EXCEPT ![inflight[p].id].status = "approved"]
  /\ inflight' = [inflight EXCEPT ![p].pc = "create"]
  /\ UNCHANGED << calcVars, calculations, users, tokens, now, hits,
                  served, revocations, script, argv, dbFile, stages, runs, running,
                  JWT_SECRET, environment, envFile >>

\* jwt.sign, await Token.create and the response
ApproveTokenCreate(p) ==
  /\ inflight[p].pc = "create"
  /\ LET apiToken == jwtSign(Payload(0 - (Len(tokens) + 1), "", "undefined", "api_token"),
                             JWT_SECRET, API_TOKEN_EXPIRY)
     IN  IF TokenCreateThrows(apiToken)
         THEN /\ inflight' = [inflight EXCEPT ![p].pc = "done", ![p].status = 500]
              /\ UNCHANGED tokens
         ELSE /\ inflight' = [inflight EXCEPT ![p].pc = "done", ![p].status = 200]
              /\ tokens' = TokenCreate(inflight[p].approvedBy, inflight[p].id, apiToken)
  /\ UNCHANGED << calcVars, calculations, users, token_requests, now, hits,
                  served, revocations, script, argv, dbFile, stages, runs, running,
                  JWT_SECRET, environment, envFile >>

ApproveNext ==
  \/ \E body \in LoginBodies : Login(body)
  \/ \E complete \in BOOLEAN : TokenRequest(complete)
  \/ \E p \in 1..MaxApprovals, header \in Headers, id \in 1..(Len(token_requests) + 1) :
       ApproveStart(p, header, id)
  \/ \E p \in 1..MaxApprovals : ApproveFindById(p)
  \/ \E p \in 1..MaxApprovals : ApproveUpdate(p)
  \/ \E p \in 1..MaxApprovals : ApproveTokenCreate(p)

ApproveSpec == Init /\ [][ApproveNext]_vars

(***************************************************************************)
(* THE SERVER PROCESS, node index.js, with no JWT_SECRET in the shell: it  *)
(* starts, serves logins and authenticated requests, is stopped and        *)
(* started again. The database and the file .env outlive the process.     *)
(***************************************************************************)
MaxStarts == 3

\* before the first start: the database is initialized, .env has no JWT_SECRET
StartInit ==
  /\ Quiet
  /\ users = InitialUsers
  /\ dbFile = "valid"
  /\ running = FALSE
  /\ JWT_SECRET = ""
  /\ environment = ""
  /\ envFile = ""

\* index.js up to app.listen, in a process spawned with JWT_SECRET = given ("" for
\* none): dotenv.config() reads .env and leaves what the process has; the requires
\* of the routes and the middleware evaluate process.env.JWT_SECRET || fallback;
\* then validateConfig() runs, and writes a generated secret to .env and to
\* process.env when there is none (the write may throw, which it catches)
IndexJs(given, jwtSecret, writable) ==
  LET loaded == IF given # "" THEN given ELSE envFile
  IN  /\ running' = TRUE
      /\ JWT_SECRET' = IF loaded # "" THEN loaded ELSE FallbackSecret
      /\ IF loaded # ""
         THEN environment' = loaded /\ UNCHANGED envFile
         ELSE IF writable
              THEN environment' = jwtSecret /\ envFile' = jwtSecret
              ELSE environment' = "" /\ UNCHANGED envFile

StartServer(jwtSecret, writable) ==
  /\ pc = "idle"
  /\ script = "off"
  /\ ~ running
  /\ runs < MaxStarts
  /\ runs' = runs + 1
  /\ IndexJs("", jwtSecret, writable)
  /\ UNCHANGED << calcVars, calculations, users, tokens, token_requests, now, hits,
                  served, revocations, inflight, script, argv, dbFile, stages >>

\* the process ends: its environment, its modules and apiLimiter's memory with it
StopServer ==
  /\ pc = "idle"
  /\ script = "off"
  /\ running
  /\ running' = FALSE
  /\ JWT_SECRET' = ""
  /\ environment' = ""
  /\ hits' = 0
  /\ served' = NoRequest
  /\ UNCHANGED << calcVars, calculations, users, tokens, token_requests, now,
                  revocations, inflight, script, argv, dbFile, stages, runs, envFile >>

StartNext ==
  \/ \E jwtSecret \in Generated, writable \in BOOLEAN : StartServer(jwtSecret, writable)
  \/ StopServer
  \/ running /\ \E body \in LoginBodies : Login(body)
  \/ running /\ \E header \in Headers : History(header)

StartSpec == StartInit /\ [][StartNext]_vars

(***************************************************************************)
(* THE DEPLOYMENT SCRIPT, callback by callback: deploy() runs the          *)
(* environment setup, the system check and initializeDatabase, and returns;*)
(* what follows is done by the callbacks initializeDatabase has left       *)
(* behind. The process ends when none is left.                             *)
(***************************************************************************)
MaxRuns == 3

Flags == SUBSET { "--skip-tests", "--setup-only" }

\* nothing is installed: no database file, no .env, no process
DeployInit ==
  /\ Quiet
  /\ users = <<>>
  /\ dbFile = "none"
  /\ running = FALSE
  /\ JWT_SECRET = ""
  /\ environment = ""
  /\ envFile = ""

\* the script is not at work: it has not run, or its process has ended
Ended == script \in {"off", "exit0", "exit1", "ended"}

\* what the steps of the script leave alone
scriptRest ==
  << calcVars, calculations, token_requests, now, hits, served, revocations, inflight >>

\* node deploy.js with its flags
Run(flags) ==
  /\ Ended
  /\ ~ running
  /\ runs < MaxRuns
  /\ runs' = runs + 1
  /\ argv' = flags
  /\ stages' = {}
  /\ script' = "environment"
  /\ environment' = ""
  /\ UNCHANGED << scriptRest, users, tokens, dbFile, running, JWT_SECRET, envFile >>

\* setupEnvironment: dotenv.config(); without a JWT_SECRET the script writes a
\* generated one to .env: a new file, whose failure ends the deployment, or an
\* append to the file there is, whose failure it logs
setupEnvironment(jwtSecret, written) ==
  /\ script = "environment"
  /\ stages' = stages \cup {"Environment Setup"}
  /\ IF envFile # ""
     THEN /\ environment' = envFile
          /\ script' = "system"
          /\ UNCHANGED envFile
     ELSE IF written = "written"
          THEN /\ envFile' = jwtSecret
               /\ environment' = jwtSecret
               /\ script' = "system"
          ELSE /\ script' = IF written = "no file" THEN "exit1" ELSE "system"
               /\ UNCHANGED << environment, envFile >>
  /\ UNCHANGED << scriptRest, users, tokens, dbFile, running, JWT_SECRET, argv, runs >>

\* checkSystemRequirements: the version of Node.js
checkSystemRequirements(met) ==
  /\ script = "system"
  /\ stages' = stages \cup {"System Requirements Check"}
  /\ script' = IF met THEN "database" ELSE "exit1"
  /\ UNCHANGED << scriptRest, users, tokens, dbFile, running, JWT_SECRET, argv, runs,
                  environment, envFile >>

\* node database/init-db.js on no file or on a file without the users table: the
\* tables, and the default admin when there is none
InitDb ==
  /\ dbFile' = "valid"
  /\ users' = IF \E u \in Range(users) : u.username = "admin" THEN users
              ELSE Append(users, [ id |-> Len(users) + 1, username |-> "admin",
                                   password |-> "admin123", role |-> "admin" ])

\* initializeDatabase, which deploy() calls: without a database file it runs
\* init-db.js and returns; with one it opens it, leaves the rest to the callback
\* and returns
initializeDatabase(done) ==
  /\ script = "database"
  /\ stages' = stages \cup {"Database Initialization"}
  /\ IF ~ done
     THEN script' = "exit1" /\ UNCHANGED << users, tokens, dbFile >>
     ELSE IF dbFile = "none"
          THEN InitDb /\ script' = "ended" /\ UNCHANGED tokens
          ELSE script' = "opened" /\ UNCHANGED << users, tokens, dbFile >>
  /\ UNCHANGED << scriptRest, running, JWT_SECRET, argv, runs, environment, envFile >>

\* the callback of new sqlite3.Database(dbPath, OPEN_READONLY): a file that
\* cannot be opened is deleted and made anew, one without the users table is
\* given its tables, and setupAdminToken() is called; when init-db.js fails
\* nothing is called
DatabaseOpened(done) ==
  /\ script = "opened"
  /\ IF dbFile = "valid"
     THEN /\ script' = "admin"
          /\ stages' = stages \cup {"Admin User Setup"}
          /\ UNCHANGED << users, tokens, dbFile >>
     ELSE IF ~ done
          THEN /\ script' = "ended"
               /\ dbFile' = IF dbFile = "corrupt" THEN "none" ELSE dbFile
               /\ UNCHANGED << users, tokens, stages >>
          ELSE /\ InitDb
               /\ script' = "admin"
               /\ stages' = stages \cup {"Admin User Setup"}
               /\ UNCHANGED tokens
  /\ UNCHANGED << scriptRest, running, JWT_SECRET, argv, runs, environment, envFile >>

\* the rows of tokens of the admin that are not revoked
AdminTokens ==
  { k \in 1..Len(tokens) :
      /\ tokens[k].revoked = 0
      /\ \E u \in Range(users) : u.username = "admin" /\ u.id = tokens[k].user_id }

\* the callback of setupAdminToken's query: an admin token that exists is written
\* to admin-token.txt and testDatabaseConnection() is called; without one, or
\* when the query fails, createAdminToken() is called
AdminTokenChecked(err) ==
  /\ script = "admin"
  /\ IF err \/ AdminTokens = {}
     THEN script' = "create" /\ UNCHANGED stages
     ELSE script' = "connection" /\ stages' = stages \cup {"System Tests"}
  /\ UNCHANGED << scriptRest, users, tokens, dbFile, running, JWT_SECRET, argv, runs,
                  environment, envFile >>

\* the callbacks of createAdminToken: the admin user, made anew when it is not
\* found; the token, signed with process.env.JWT_SECRET || fallback; the
\* revocation of the admin token there is; the INSERT, whose failure is logged;
\* and testDatabaseConnection()
AdminTokenCreated ==
  /\ script = "create"
  /\ LET found == { u \in Range(users) : u.username = "admin" }
         adminId == IF found = {} THEN Len(users) + 1 ELSE (CHOOSE u \in found : TRUE).id
         adminToken == jwtSign(Payload(adminId, "admin", "admin", "undefined"),
                               IF environment # "" THEN environment ELSE FallbackSecret,
                               TOKEN_EXPIRY)
         existing == { k \in 1..Len(tokens) :
                         tokens[k].user_id = adminId /\ tokens[k].revoked = 0 }
         kept == IF existing = {} THEN tokens
                 ELSE [tokens EXCEPT ![CHOOSE k \in existing : TRUE].revoked = 1]
     IN  /\ users' = IF found # {} THEN users
                     ELSE Append(users, [ id |-> adminId, username |-> "admin",
                                          password |-> "admin123", role |-> "admin" ])
         /\ tokens' = IF TokenCreateThrows(adminToken) THEN kept
                      ELSE Append(kept, [ id |-> Len(kept) + 1, user_id |-> adminId,
                                          request_id |-> 0, token |-> adminToken,
                                          revoked |-> 0 ])
  /\ script' = "connection"
  /\ stages' = stages \cup {"System Tests"}
  /\ UNCHANGED << scriptRest, dbFile, running, JWT_SECRET, argv, runs, environment,
                  envFile >>

\* startServer: the stage, and node index.js unless --setup-only
startServer(jwtSecret, writable) ==
  /\ stages' = stages \cup {"Server Startup"}
  /\ IF "--setup-only" \in argv
     THEN script' = "exit0" /\ UNCHANGED << running, JWT_SECRET, environment, envFile >>
     ELSE script' = "serving" /\ IndexJs(environment, jwtSecret, writable)

\* the callbacks of testDatabaseConnection, each of which ends in runTests():
\* with --skip-tests it calls startServer(), else it spawns the tests
DatabaseTested(jwtSecret, writable) ==
  /\ script = "connection"
  /\ IF "--skip-tests" \in argv
     THEN startServer(jwtSecret, writable)
     ELSE /\ script' = "tests"
          /\ UNCHANGED << stages, running, JWT_SECRET, environment, envFile >>
  /\ UNCHANGED << scriptRest, users, tokens, dbFile, argv, runs >>

\* the tests have ended, with whatever code: startServer()
TestsClosed(jwtSecret, writable) ==
  /\ script = "tests"
  /\ startServer(jwtSecret, writable)
  /\ UNCHANGED << scriptRest, users, tokens, dbFile, argv, runs >>

\* SIGINT or SIGTERM, or the server's own end: the script exits with the server
Interrupt ==
  /\ script = "serving"
  /\ script' = "exit0"
  /\ running' = FALSE
  /\ JWT_SECRET' = ""
  /\ environment' = ""
  /\ UNCHANGED << scriptRest, users, tokens, dbFile, argv, runs, stages, envFile >>

\* between two runs the database file is damaged: it cannot be opened, or it has
\* lost its tables
Damage(kind) ==
  /\ Ended
  /\ ~ running
  /\ dbFile = "valid"
  /\ runs < MaxRuns
  /\ dbFile' = kind
  /\ users' = <<>>
  /\ tokens' = <<>>
  /\ UNCHANGED << scriptRest, script, argv, stages, runs, running, JWT_SECRET,
                  environment, envFile >>

\* the steps the script takes by itself once it is started
ScriptStep ==
  \/ \E jwtSecret \in Generated, written \in {"written", "no file", "no append"} :
       setupEnvironment(jwtSecret, written)
  \/ \E met \in BOOLEAN : checkSystemRequirements(met)
  \/ \E done \in BOOLEAN : initializeDatabase(done)
  \/ \E done \in BOOLEAN : DatabaseOpened(done)
  \/ \E err \in BOOLEAN : AdminTokenChecked(err)
  \/ AdminTokenCreated
  \/ \E jwtSecret \in Generated, writable \in BOOLEAN : DatabaseTested(jwtSecret, writable)
  \/ \E jwtSecret \in Generated, writable \in BOOLEAN : TestsClosed(jwtSecret, writable)

DeployNext ==
  \/ \E flags \in Flags : Run(flags)
  \/ ScriptStep
  \/ Interrupt
  \/ \E kind \in {"corrupt", "incomplete"} : Damage(kind)

DeploySpec == DeployInit /\ [][DeployNext]_vars

\* Node.js runs every callback that is due: a step of the script that can be
\* taken is taken
DeployFairSpec == DeploySpec /\ WF_vars(ScriptStep)

(***************************************************************************)
(* THE CLAIMS.                                                             *)
(***************************************************************************)
\* performCalculations accepted the request: its curves exist
InCalc == pc \in {"loop", "returned"} \/ (pc = "responded" /\ response.status = 200)

\* performCalculations has returned
HasResults == pc = "returned" \/ (pc = "responded" /\ response.status = 200)

NPts == NPoints(cfg)

\* every improvement the loop visits has a finite start year and a finite annual
\* saving, and so has every category of the roof division
AllCategoriesNumeric(c) ==
  /\ \A j \in 1..Len(c.improvement_years) :
       /\ IsFin(c.improvement_years[j].val)
       /\ IsFin(Get(annual_savings(c), c.improvement_years[j].key))
  /\ \A j \in 1..Len(c.roof_division) : IsFin(annual_savings(c)[j].val)
  /\ IsFin(c.efficiency_degradation) /\ c.efficiency_degradation.v >= 0

\* C1: in every accepted request whose categories all have a numeric saving and
\* start year, every sample of the improved curve is a number >= 0, at every
\* moment of the loop.
C1_ImprovedNeverNegative ==
  (InCalc /\ AllCategoriesNumeric(cfg)) =>
    \A j \in 1..Len(co2_with_improvements) : Geq(co2_with_improvements[j], Zero)

\* C1 witness: the run is over, and at some sample the decline and the savings
\* took the value below 0 and the floor put it at 0.
C1_Witness ==
  /\ pc = "returned"
  /\ AllCategoriesNumeric(cfg)
  /\ \E j \in 2..Len(co2_with_improvements) :
       /\ co2_with_improvements[j] = Zero
       /\ Lt(ApplyImprovements(cfg, DeclineStep(cfg, co2_with_improvements[j - 1]),
                               years_smooth[j], 1), Zero)

\* a request the validation has to refuse, read from the parameters themselves
Rejectable(c) ==
  \/ IsFin(c.roof_area) /\ c.roof_area.v <= 0
  \/ IsFin(c.GWP_roof) /\ c.GWP_roof.v <= 0
  \/ IsFin(c.decline_rate) /\ (c.decline_rate.v < 0 \/ c.decline_rate.v >= Scale)
  \/ LET total == totalPercentage(c)
     IN  IsFin(total) /\ Abs(total.v - 100 * Scale) > Scale \div 100

\* C2: a request with roof_area <= 0, GWP_roof <= 0, decline_rate outside [0, 1) or
\* a roof division whose sum is off 100 by more than 0.01 is refused by an error
\* before any sample is computed, no result is returned, and the route answers 400.
C2_InvalidRejected ==
  (pc # "idle" /\ Rejectable(cfg)) =>
    /\ pc \in {"thrown", "responded"}
    /\ error # ""
    /\ years_smooth = <<>>
    /\ co2_natural_decline = <<>>
    /\ co2_with_improvements = <<>>
    /\ results = NoResults
    /\ (pc = "responded" => response.status = 400 /\ ~response.success)

\* C2 witness: a request whose only fault is the sum of its roof division has been
\* answered 400.
C2_Witness ==
  /\ pc = "responded"
  /\ response.status = 400
  /\ Gt(cfg.roof_area, Zero) /\ Gt(cfg.GWP_roof, Zero)
  /\ Geq(cfg.decline_rate, Zero) /\ Lt(cfg.decline_rate, One)
  /\ Gt(MathAbs(Sub(totalPercentage(cfg), Dec(100, 0))), Dec(0, 10))

\* C3 (as claimed): when the total annual savings is 0, simple_payback_years is
\* reported as null, never as Infinity or NaN.
C3_ZeroSavingsPaybackNull ==
  (pc = "returned" /\ results.savings.annual = Zero) =>
    results.economics.simple_payback_years = Null

\* the 1-based position of the first sample of curve that is <= 0, 0 when none is
FirstNonPositive(curve) ==
  IF \E j \in 1..Len(curve) : Leq(curve[j], Zero)
  THEN CHOOSE j \in 1..Len(curve) :
         Leq(curve[j], Zero) /\ \A h \in 1..(j - 1) : ~Leq(curve[h], Zero)
  ELSE 0

\* C4 (as claimed): neutrality.with_improvements is the grid year of the first
\* sample of the improved curve that is <= 0, and null exactly when no sample is.
C4_NeutralityIsFirstCrossing ==
  (pc = "returned") =>
    LET first == FirstNonPositive(co2_with_improvements)
    IN  IF first = 0
        THEN results.neutrality.with_improvements = Null
        ELSE results.neutrality.with_improvements = years_smooth[first]

C6_GridFromZeroToHorizon ==
  InCalc =>
    /\ Len(years_smooth) = NPts
    /\ years_smooth[1] = Zero
    /\ IsFin(years_smooth[NPts])
    /\ 2 * Abs(years_smooth[NPts].v - cfg.years_to_calculate.v) <= NPts - 1
    /\ \A j \in 1..(NPts - 2) :
         Sub(years_smooth[j + 1], years_smooth[j])
           = Sub(years_smooth[j + 2], years_smooth[j + 1])

\* C7 (as claimed): the ten-year index designates an existing sample, and that
\* sample is the one whose year is nearest to 10.
C7_TenYearIndexIsNearestSample ==
  HasResults =>
    LET idx == ten_year_index(cfg)
    IN  /\ IsFin(idx)
        /\ idx.v >= 0
        /\ idx.v \div Scale < NPts
        /\ \A j \in 1..NPts :
             Leq(MathAbs(Sub(At(years_smooth, idx), Dec(10, 0))),
                 MathAbs(Sub(years_smooth[j], Dec(10, 0))))

\* the names of the properties of obj
Keys(obj) == { obj[j].key : j \in 1..Len(obj) }

\* the roof division sums to 100 and names a category that full_savings or
\* improvement_years does not have
CallerDefinedNames(c) ==
  /\ Leq(MathAbs(Sub(totalPercentage(c), Dec(100, 0))), Dec(0, 10))
  /\ \E key \in Keys(c.roof_division) :
       key \notin Keys(c.full_savings) \/ key \notin Keys(c.improvement_years)

\* C8 (as claimed): with category names of the caller's own, every category's
\* annual saving, the total annual saving and every sample of the improved curve
\* are numbers.
C8_CallerDefinedNamesGiveNumbers ==
  (pc = "returned" /\ CallerDefinedNames(cfg)) =>
    /\ \A j \in 1..Len(results.configuration.annual_savings) :
         IsFin(results.configuration.annual_savings[j].val)
    /\ IsFin(results.savings.annual)
    /\ \A j \in 1..NPts : IsFin(results.timeline.co2_with_improvements[j])

\* no improvement contributes: every improvement the loop visits has the annual
\* saving 0
NoImprovementContributes(c) ==
  /\ AllCategoriesNumeric(c)
  /\ \A j \in 1..Len(c.improvement_years) :
       Get(annual_savings(c), c.improvement_years[j].key) = Zero

\* C9 (as claimed): when no improvement contributes, the improved curve is the
\* natural curve at every sample.  Stated for grids of two points and more, and up
\* to a hundredth of initial_co2 and one quantum a sample, so that no rounding of
\* the model is taken for a difference.
C9_NoImprovementEqualsNatural ==
  (pc = "returned" /\ NPts >= 2 /\ NoImprovementContributes(cfg)) =>
    \A j \in 1..NPts :
      /\ IsFin(co2_with_improvements[j])
      /\ IsFin(co2_natural_decline[j])
      /\ Abs(co2_with_improvements[j].v - co2_natural_decline[j].v)
           <= (initial_co2(cfg).v \div 100) + NPts

\* C10 (as claimed): while decline_rate > 0 and the climate factor > 0, the
\* natural curve decreases along the grid and both curves start at
\* GWP_roof * roof_area.  Two neighbouring samples are compared up to their
\* rounding: the later one is not above the earlier one.
C10_NaturalDecreasingFromInitial ==
  (InCalc /\ Gt(cfg.decline_rate, Zero) /\ Gt(climate_factor(cfg), Zero)) =>
    /\ \A j \in 1..(NPts - 1) : Leq(co2_natural_decline[j + 1], co2_natural_decline[j])
    /\ co2_natural_decline[1] = Mul(cfg.GWP_roof, cfg.roof_area)
    /\ co2_with_improvements[1] = Mul(cfg.GWP_roof, cfg.roof_area)

\* the j-th improvement is active at the h-th sample: its start year is reached
ActiveAt(c, j, h) == Geq(years_smooth[h], c.improvement_years[j].val)

\* the efficiency the loop uses for the j-th improvement at the h-th sample
EfficiencyAt(c, j, h) ==
  efficiency(c, Sub(years_smooth[h], c.improvement_years[j].val))

\* C11: with a finite efficiency_degradation >= 0, at every sample the loop visits
\* the efficiency of an active category lies in [0, 1], does not grow from a
\* sample to a later one, and is exactly 1 when efficiency_degradation is 0; a
\* category whose start year is later than the sample year leaves the sample as it
\* is.  A category active at a sample is active at every later one, the grid being
\* increasing, so that each sample is compared with the one before it.
C11_EfficiencyBoundedNonIncreasing ==
  (InCalc /\ i = NPts /\ AllCategoriesNumeric(cfg)) =>
    \A j \in 1..Len(cfg.improvement_years) : \A h \in 2..NPts :
      /\ ActiveAt(cfg, j, h) =>
           /\ Geq(EfficiencyAt(cfg, j, h), Zero)
           /\ Leq(EfficiencyAt(cfg, j, h), One)
           /\ (cfg.efficiency_degradation = Zero) => EfficiencyAt(cfg, j, h) = One
           /\ ActiveAt(cfg, j, h - 1) =>
                Leq(EfficiencyAt(cfg, j, h), EfficiencyAt(cfg, j, h - 1))
      /\ ~ActiveAt(cfg, j, h) =>
           ApplyImprovement(cfg, DeclineStep(cfg, co2_with_improvements[h - 1]),
                            years_smooth[h], j)
             = DeclineStep(cfg, co2_with_improvements[h - 1])

\* C11 witness: a run with a degradation above 0 in which the efficiency of one
\* category has fallen from one sample to the next without reaching 0, and
\* another category has not started at a sample.
C11_Witness ==
  /\ pc = "returned"
  /\ AllCategoriesNumeric(cfg)
  /\ Gt(cfg.efficiency_degradation, Zero)
  /\ \E j \in 1..Len(cfg.improvement_years) : \E h \in 2..NPts :
       /\ ActiveAt(cfg, j, h - 1)
       /\ Lt(EfficiencyAt(cfg, j, h), EfficiencyAt(cfg, j, h - 1))
       /\ Gt(EfficiencyAt(cfg, j, h), Zero)
  /\ \E j \in 1..Len(cfg.improvement_years) : \E h \in 2..NPts : ~ActiveAt(cfg, j, h)

\* the requests served so far that ran an engine
EngineCalls == { j \in 1..Len(log) : log[j].route \in {"/calculate", "/enhanced-calculate"} }

\* the requests served so far that an engine or the report answered with a result
Served(r) == { j \in 1..Len(log) : log[j].route = r /\ log[j].status = 200 }

CostPerSqm(category) ==
  CASE category = "Green Areas" -> Dec(120, 0)
    [] category = "Solar Power" -> Dec(350, 0)
    [] category = "Water Management" -> Dec(80, 0)
    [] category = "Social Impact" -> Dec(150, 0)
    [] OTHER -> Dec(100, 0)

\* the sum over the first j categories of area * (share / 100) * cost per sqm
RECURSIVE CostSum(_, _, _)
CostSum(roof_area, roof_division, j) ==
  IF j = 0 THEN Zero
  ELSE Add(CostSum(roof_area, roof_division, j - 1),
           Mul(Mul(roof_area, Div(roof_division[j].val, Dec(100, 0))),
               CostPerSqm(roof_division[j].key)))

\* the roof of a request served, defaults applied
RoofOf(j) ==
  IF log[j].route = "/calculate" THEN Destructure(log[j].input)
  ELSE DestructureEnhanced(log[j].input)

\* C14 (as claimed): the estimated cost of every result is the sum over the
\* categories of roof_area * (share / 100) * cost per sqm, 100 for a category
\* outside the table, and the two cost functions agree on the roof.
C14_CostIsSumOverCategories ==
  \A j \in Served("/calculate") \cup Served("/enhanced-calculate") :
    LET roof == RoofOf(j)
        n == Len(roof.roof_division)
    IN  /\ log[j].results.economics.estimated_cost
             = CostSum(roof.roof_area, roof.roof_division, n)
        /\ calculateEstimatedCost(roof.roof_area, roof.roof_division, n)
             = calculateEnhancedEstimatedCost(roof.roof_area, roof.roof_division, n)

\* the list of SDGs of a request served
SdgsOf(j) ==
  IF log[j].route = "/sdg-report" THEN log[j].input.sdg_focus
  ELSE DestructureEnhanced(log[j].input).sdg_focus

\* the SDG alignment score of a request served
SdgScoreOf(j) == log[j].results.sdg_alignment.sdg_alignment_score

\* C15: for every list of SDG names the alignment score is a number in [0, 100]:
\* 100 for 17 names and more, and 100 * length / 17 up to the rounding of the
\* quotient below; the enhanced pipeline and the report give the same score to the
\* same list.
C15_SdgScoreCapped ==
  LET scored == Served("/enhanced-calculate") \cup Served("/sdg-report")
  IN  \A a \in scored :
        /\ Geq(SdgScoreOf(a), Zero)
        /\ Leq(SdgScoreOf(a), Dec(100, 0))
        /\ (Len(SdgsOf(a)) >= 17) => SdgScoreOf(a) = Dec(100, 0)
        /\ (Len(SdgsOf(a)) < 17) =>
             Abs(17 * SdgScoreOf(a).v - 100 * Scale * Len(SdgsOf(a))) <= 17 * 50
        /\ \A b \in scored : (SdgsOf(a) = SdgsOf(b)) => SdgScoreOf(a) = SdgScoreOf(b)

\* C15 witness: the enhanced pipeline and the report have scored the same list of
\* 18 names, one of them twice in it, at 100.
C15_Witness ==
  \E a \in Served("/enhanced-calculate") : \E b \in Served("/sdg-report") :
    /\ SdgsOf(a) = SdgsOf(b)
    /\ Len(SdgsOf(a)) = 18
    /\ SdgScoreOf(a) = Dec(100, 0)
    /\ SdgScoreOf(b) = Dec(100, 0)

\* the scale of five tiers
FiveTiers(score) ==
  IF Geq(score, Dec(90, 0)) THEN "Exceptional"
  ELSE IF Geq(score, Dec(70, 0)) THEN "Strong"
  ELSE IF Geq(score, Dec(50, 0)) THEN "Good"
  ELSE IF Geq(score, Dec(30, 0)) THEN "Moderate"
  ELSE "Limited"

\* the scale of seven tiers
SevenTiers(score) ==
  IF Geq(score, Dec(90, 0)) THEN "Outstanding"
  ELSE IF Geq(score, Dec(80, 0)) THEN "Excellent"
  ELSE IF Geq(score, Dec(70, 0)) THEN "Very Good"
  ELSE IF Geq(score, Dec(60, 0)) THEN "Good"
  ELSE IF Geq(score, Dec(50, 0)) THEN "Satisfactory"
  ELSE IF Geq(score, Dec(40, 0)) THEN "Acceptable"
  ELSE "Needs Improvement"

Unaddressed(addressed) ==
  { sdgDescriptions[h] : h \in 1..Len(sdgDescriptions) }
    \ { addressed[h] : h \in 1..Len(addressed) }

\* C17: the report suggests at most 3 SDGs, as many as 3 when 3 are left, each one
\* of the catalog and not addressed, none twice; it gives the 'addresses all'
\* message in their place exactly when the catalog has no SDG left unaddressed.
C17_SuggestionsAreUnaddressed ==
  \A j \in Served("/sdg-report") :
    LET suggestions == log[j].results.recommendations.suggestions
        left == Unaddressed(log[j].input.sdg_focus)
    IN  IF left = {}
        THEN /\ Len(suggestions) = 1
             /\ suggestions[1].sdg = "All SDGs"
        ELSE /\ Len(suggestions) <= 3
             /\ Len(suggestions) = (IF Cardinality(left) < 3 THEN Cardinality(left) ELSE 3)
             /\ \A a \in 1..Len(suggestions) :
                  /\ suggestions[a].sdg \in left
                  /\ \A b \in 1..Len(suggestions) :
                       (suggestions[a].sdg = suggestions[b].sdg) => a = b

\* C17 witness: a report for a list that addresses SDGs of the catalog and leaves
\* more than 3 has suggested 3, and a report for a list that addresses the whole
\* catalog has given the message.
C17_Witness ==
  /\ \E j \in Served("/sdg-report") :
       /\ Len(log[j].results.recommendations.suggestions) = 3
       /\ Cardinality(Unaddressed(log[j].input.sdg_focus)) > 3
       /\ Cardinality(Unaddressed(log[j].input.sdg_focus)) < Len(sdgDescriptions)
  /\ \E j \in Served("/sdg-report") :
       /\ Unaddressed(log[j].input.sdg_focus) = {}
       /\ log[j].results.recommendations.suggestions[1].sdg = "All SDGs"

\* C18 (as claimed): the sustainability score of every result of the enhanced
\* engine lies within 0..100.  Stated for the scores that are numbers: a score
\* that is NaN (no social metric, a health metric missing) is left aside.
C18_SustainabilityScoreInRange ==
  \A j \in Served("/enhanced-calculate") :
    IsNum(log[j].results.sustainability.sustainability_score) =>
      /\ Geq(log[j].results.sustainability.sustainability_score, Zero)
      /\ Leq(log[j].results.sustainability.sustainability_score, Dec(100, 0))

\* the request served went to a route behind authenticate
ToProtected == served.route \in ProtectedRoutes

\* C19, as stated: a protected handler is reached only by a request whose token
\* verifies under JWT_SECRET and is stored with revoked = 0; a request without an
\* Authorization header is answered 401; and a request that presents a token
\* whose revocation was answered 200 is answered 401, whenever it comes.
C19_RevokedAlways401 ==
  ToProtected =>
    /\ served.reached => (served.verified /\ served.stored)
    /\ served.k = "none" => served.status = 401
    /\ served.revoked => served.status = 401

\* C19, amended: a protected handler is reached only by a request whose token
\* verifies, is stored with revoked = 0 and was never revoked; a request without
\* a header, or with a token whose revocation was answered 200, never reaches the
\* handler and changes no table: it is answered 401, or 429 on a route under
\* apiLimiter once the window is full, since the limiter answers before
\* authenticate runs.
C19_RevokedNeverReaches ==
  ToProtected =>
    /\ served.reached => (served.verified /\ served.stored /\ ~ served.revoked)
    /\ (served.k = "none" \/ served.revoked) =>
         /\ ~ served.reached
         /\ ~ served.changed
         /\ served.status = IF served.limited THEN 429 ELSE 401

\* a token that still verifies is presented after its revocation and refused
C19_Witness ==
  ToProtected /\ served.revoked /\ served.verified /\ served.status = 401

\* the request served went to an admin-only route, and authenticate let it pass
ToAdmin == served.route \in AdminRoutes
Authenticated == served.verified /\ served.stored

\* C20: the handler of an admin-only route runs only for an authenticated request
\* whose payload has role 'admin'; every other authenticated caller, an API token
\* among them, is answered 403 and no table changes.
C20_AdminOnly ==
  ToAdmin =>
    /\ served.reached => (Authenticated /\ served.role = "admin")
    /\ (Authenticated /\ served.role # "admin") =>
         /\ served.status = 403
         /\ ~ served.reached
         /\ ~ served.changed

\* an approved API token is presented to an admin-only route and refused
C20_Witness ==
  /\ ToAdmin
  /\ Authenticated
  /\ served.type = "api_token"
  /\ served.status = 403
  /\ \E row \in Range(token_requests) : row.status = "approved"

\* the request served read the calculations table for its caller
Retrieval == served.route \in {"GET /history", "GET /history/:id", "GET /export/:id"}
ById == served.route \in {"GET /history/:id", "GET /export/:id"}

\* the row with the :id of the request, when another user's id is stored in it
OfAnother ==
  \E row \in Range(calculations) : row.id = served.id /\ row.user_id # served.caller

\* C21: GET /history returns exactly the calculations whose stored user id is the
\* requester's id, and GET /history/:id and GET /export/:id return a calculation
\* only to the user it is stored under and answer 404 for any other id.
C21_OnlyOwnCalculations ==
  Retrieval =>
    /\ \A row \in served.returned : row.user_id = served.caller
    /\ (served.route = "GET /history" /\ served.reached) =>
         served.returned = { row \in Range(calculations) : row.user_id = served.caller }
    /\ (ById /\ served.reached) =>
         /\ \A row \in served.returned : row.id = served.id
         /\ (~ \E row \in Range(calculations) :
                 row.id = served.id /\ row.user_id = served.caller) =>
              (served.status = 404 /\ served.returned = {})

\* a user asks for a calculation stored under another user and is answered 404
C21_Witness ==
  /\ ById
  /\ served.reached
  /\ OfAnother
  /\ served.status = 404
  /\ \E row \in Range(calculations) : row.user_id = served.caller

\* the body of a POST /simple-calculate with a positive roof_area and a
\* roof_division that sums to 100
ValidSimple(body) ==
  /\ Gt(body.roof_area, Zero)
  /\ "roof_division" \in body.given
  /\ ~ Gt(MathAbs(Sub(totalPercentage(body), Dec(100, 0))), Dec(0, 10))

\* C22: a POST /simple-calculate with a positive roof_area and a roof_division
\* summing to 100, sent by an authenticated user, is answered 200 with the id of
\* the saved calculation, and that calculation is among those GET /history and
\* GET /history/:id return to this user.
C22_SimpleSavedAndRetrievable ==
  (served.route = "POST /simple-calculate" /\ served.reached /\ ValidSimple(served.body)) =>
    /\ served.status = 200
    /\ \E row \in served.returned :
         /\ row \in CalculationGetAllForUser(served.caller)
         /\ row \in CalculationFindById(row.id, served.caller)

\* C23: after a token request and its approval by an admin, a valid POST /calculate
\* that carries the API token, un-revoked and within the rate limit, is answered 200
\* and its calculation is saved.
C23_ApiTokenCalculates ==
  ( /\ served.route = "POST /calculate"
    /\ served.type = "api_token"
    /\ Authenticated
    /\ ~ served.limited
    /\ performCalculationsThrows(served.body) = "" ) =>
    /\ served.status = 200
    /\ served.changed
    /\ served.returned # {}

\* the buildings of a batch whose calculation throws, and those it does not
Throwing(buildings) ==
  { j \in 1..Len(buildings) :
      performCalculationsThrows(Spread(common_parameters, buildings[j].parameters)) # "" }

\* C24: when every building of a POST /batch has its building_id and the
\* calculation of one of them throws, the other buildings are still calculated,
\* saved and returned.
C24_BatchContinues ==
  ( /\ served.route = "POST /batch"
    /\ served.reached
    /\ \E u \in Range(users) : u.id = served.caller
    /\ \A j \in 1..Len(served.body) : served.body[j].building_id # ""
    /\ Throwing(served.body) # {} ) =>
    /\ Cardinality(served.returned) = Len(served.body) - Cardinality(Throwing(served.body))
    /\ served.returned \subseteq Range(calculations)

\* C25: a POST /batch or POST /compare that is answered with an error has
\* persisted no calculation.
C25_ErrorLeavesNothing ==
  ( /\ served.route \in {"POST /batch", "POST /compare"}
    /\ served.status >= 400 ) =>
    ~ served.changed

\* what the loop subtracts for one improvement at the samples 2..j of the first
\* simulated year, the years (0, 1] of the grid
RECURSIVE FirstYearSaving(_, _, _, _)
FirstYearSaving(c, k, years, j) ==
  IF j < 2 THEN Zero
  ELSE Add(FirstYearSaving(c, k, years, j - 1),
           IF Leq(years[j], One) /\ Geq(years[j], c.improvement_years[k].val)
           THEN StepSaving(c, c.improvement_years[k].key,
                           Sub(years[j], c.improvement_years[k].val))
           ELSE Zero)

\* improvement k is active from year 0 on with a saving above 0, and the floor at
\* 0 takes nothing from the samples of the first year
ActiveUnclamped(c, k) ==
  /\ c.improvement_years[k].val = Zero
  /\ Gt(Get(annual_savings(c), c.improvement_years[k].key), Zero)
  /\ \A j \in 2..Len(co2_with_improvements) :
       Leq(years_smooth[j], One) => Gt(co2_with_improvements[j], Zero)

\* C28: savings are applied at an annual rate: with efficiency 1 (no degradation),
\* a grid that has year 1 among its samples and no clamping, the amounts the loop
\* subtracts for a category over the samples of one simulated year sum to the
\* category's annual saving times the climate factor.
C28_AnnualRate ==
  ( /\ pc = "returned"
    /\ cfg.efficiency_degradation = Zero
    /\ \E j \in 2..NPts : years_smooth[j] = One ) =>
    \A k \in 1..Len(cfg.improvement_years) :
      ActiveUnclamped(cfg, k) =>
        Leq(MathAbs(Sub(FirstYearSaving(cfg, k, years_smooth, NPts),
                        Mul(Get(annual_savings(cfg), cfg.improvement_years[k].key),
                            climate_factor(cfg)))),
            Dec(0, 10))

\* the annual saving of every category and of every improvement the loop visits
\* is a number >= 0
NonNegativeSavings(c) ==
  /\ \A j \in 1..Len(c.roof_division) : Geq(annual_savings(c)[j].val, Zero)
  /\ \A j \in 1..Len(c.improvement_years) :
       Geq(Get(annual_savings(c), c.improvement_years[j].key), Zero)

\* C30: when every category's annual saving is a number >= 0, the improved curve
\* never rises from one sample of the grid to the next, and a sample after a
\* sample of 0 is 0, at every moment of the loop.
C30_NonIncreasingZeroAbsorbing ==
  (InCalc /\ AllCategoriesNumeric(cfg) /\ NonNegativeSavings(cfg)) =>
    \A j \in 2..Len(co2_with_improvements) :
      /\ Leq(co2_with_improvements[j], co2_with_improvements[j - 1])
      /\ co2_with_improvements[j - 1] = Zero => co2_with_improvements[j] = Zero

\* C30 witness: a finished curve that falls from a value above 0 to 0 before its
\* last sample and stays there, with a saving above 0 at work
C30_Witness ==
  /\ pc = "returned"
  /\ AllCategoriesNumeric(cfg)
  /\ NonNegativeSavings(cfg)
  /\ \E j \in 1..Len(cfg.roof_division) : Gt(annual_savings(cfg)[j].val, Zero)
  /\ Gt(co2_with_improvements[1], Zero)
  /\ \E j \in 2..(Len(co2_with_improvements) - 1) :
       /\ Gt(co2_with_improvements[j - 1], Zero)
       /\ co2_with_improvements[j] = Zero
       /\ co2_with_improvements[j + 1] = Zero

\* the tokens created for token request id
TokensOf(id) == { k \in 1..Len(tokens) : tokens[k].request_id = id }

\* C29: each token request yields at most one API token, under every interleaving
\* of the approve handlers at work on it: one approval is answered 200 and every
\* other is answered 400.
C29_OneTokenPerRequest ==
  \A id \in 1..Len(token_requests) :
    /\ Cardinality(TokensOf(id)) <= 1
    /\ Cardinality({ p \in 1..MaxApprovals :
                       inflight[p].id = id /\ inflight[p].status = 200 }) <= 1

\* C27: when the server starts with no JWT_SECRET configured, the generated
\* secret is the key: no stored token is signed with the hard-coded fallback, and
\* every stored token, whichever start issued it, verifies under the key of the
\* running server.
C27_GeneratedSecretIsTheKey ==
  running =>
    /\ JWT_SECRET # FallbackSecret
    /\ \A row \in Range(tokens) :
         /\ row.token.secret # FallbackSecret
         /\ jwtVerify(row.token, JWT_SECRET)

\* run r of the script is past initializeDatabase, which returned true, and the
\* database is there
Initialized(r) ==
  /\ runs = r
  /\ "Database Initialization" \in stages
  /\ script \notin {"database", "exit1"}
  /\ dbFile = "valid"

\* run r of the script has come to Server Startup, by way of the admin token
\* setup and the tests
Started(r) ==
  /\ runs = r
  /\ {"Admin User Setup", "System Tests", "Server Startup"} \subseteq stages
  /\ script \in {"serving", "exit0"}
  /\ (script = "serving") = ("--setup-only" \notin argv)

\* C26: every run of the deployment script in which the environment setup, the
\* system check and the database initialization succeed eventually comes to
\* Server Startup by way of the admin token setup and the tests, and starts the
\* server unless --setup-only was given; so on a first run, with no database file.
C26_ReachesServerStartup ==
  \A r \in 1..MaxRuns : Initialized(r) ~> Started(r)

=============================================================================
